---------------------------- MODULE Spec2Model ----------------------------
(***************************************************************************)
(* A model of girder's FilesystemAssetstoreAdapter                         *)
(* (girder/utility/filesystem_assetstore_adapter.py): resumable chunked    *)
(* uploads into a scratch file, content-addressed publication on           *)
(* finalize, and reference-counted deletion; and of the route              *)
(* documentation of girder/api/docs.py.                                    *)
(*                                                                         *)
(* Twelve specifications share the variables:                              *)
(*   SpecUpload  one handler call per step on one upload session           *)
(*               (initUpload, uploadChunk, a crash in uploadChunk,         *)
(*               finalizeUpload);                                          *)
(*   SpecStore   finalizeUpload and deleteFile of several sessions broken  *)
(*               into their filesystem and database steps, interleaved     *)
(*               freely;                                                   *)
(*   SpecSeq     the steps of SpecStore with one request served at a time; *)
(*   SpecStream  downloadFile and the pulls of its generator, between      *)
(*               uploads, imports, deletions and writes from outside;      *)
(*   SpecScan    findInvalidFiles and the pulls of its generator, over     *)
(*               stored and imported files that are removed, cut or        *)
(*               rewritten from outside;                                   *)
(*   SpecSessions  two upload sessions with initUpload, uploadChunk,       *)
(*               finalizeUpload and cancelUpload, one call at a time on a  *)
(*               session;                                                  *)
(*   SpecCancel  uploadChunk taken access by access while two callers      *)
(*               cancel the session;                                       *)
(*   SpecRoot    validateInfo, __init__ and capacityInfo over the states   *)
(*               of the root directory;                                    *)
(*   SpecImport  importData over a directory tree outside the assetstore;  *)
(*   SpecTerminal  one upload session whose document is kept after         *)
(*               finalizeUpload and cancelUpload, and the calls that       *)
(*               follow on it;                                             *)
(*   SpecHandles  initUpload and uploadChunk taken access by access with   *)
(*               the files they hold open, and the stream of the           *)
(*               published file;                                           *)
(*   SpecDocs    addRouteDocs and removeRouteDocs on the routes            *)
(*               dictionary.                                               *)
(* The file documents of uploads and imports belong to the assetstore of   *)
(* the adapter; SpecScan adds one document of another assetstore.          *)
(***************************************************************************)
EXTENDS Integers, Sequences, FiniteSets, TLC

(***************************************************************************)
(* Bounds of the model.                                                    *)
(***************************************************************************)
NumSessions == 2
MaxSize == 2
MaxGap == 1
MaxChunk == MaxSize + 1

Sessions == 1..NumSessions
Byte == {0, 1}

\* BUF_SIZE is 65536 in the source; it is scaled down so that a chunk of
\* MaxChunk bytes takes more than one read of the loop.
BUF_SIZE == 2

SeqsUpTo(n) == UNION {[1..k -> Byte] : k \in 0..n}
Chunks == SeqsUpTo(MaxChunk)

Take(q, n) == SubSeq(q, 1, IF Len(q) < n THEN Len(q) ELSE n)
Drop(q, n) == SubSeq(q, n + 1, Len(q))
IsPrefix(p, q) == Len(p) <= Len(q) /\ SubSeq(q, 1, Len(p)) = p

(***************************************************************************)
(* The streaming digest.  hashlib's SHA-512 is replaced by a small         *)
(* incremental hash with the same interface: a state that absorbs bytes    *)
(* one after the other, and a hex digest computed from the state.  The     *)
(* state is one register h (a bijective base-2 numeral of the bytes        *)
(* absorbed, so distinct messages give distinct registers) and the count   *)
(* n of bytes absorbed.  The digest is the register times an odd           *)
(* multiplier modulo 16^HexLen, which is injective, written as HexLen hex  *)
(* digits; distinct messages may share their first four digits.            *)
(***************************************************************************)
HexLen == 5
LenDigits == 2
MixMul == 699051

RECURSIVE Pow16(_)
Pow16(k) == IF k = 0 THEN 1 ELSE 16 * Pow16(k - 1)

ToHex(v, w) == [i \in 1..w |-> (v \div Pow16(w - i)) % 16]

RECURSIVE FromHex(_)
FromHex(x) ==
    IF x = <<>> THEN 0
    ELSE 16 * FromHex(SubSeq(x, 1, Len(x) - 1)) + x[Len(x)]

sha512 == [h |-> 0, n |-> 0]

RECURSIVE update(_, _)
update(checksum, data) ==
    IF data = <<>> THEN checksum
    ELSE update([h |-> (2 * checksum.h + data[1] + 1) % Pow16(HexLen),
                 n |-> checksum.n + 1],
                Drop(data, 1))

hexdigest(checksum) == ToHex((checksum.h * MixMul) % Pow16(HexLen), HexLen)

\* sha512_state.serializeHex / restoreHex: the state written as hex digits
\* and parsed back.
serializeHex(checksum) == ToHex(checksum.h, HexLen) \o ToHex(checksum.n, LenDigits)

restoreHex(state) ==
    [h |-> FromHex(SubSeq(state, 1, HexLen)),
     n |-> FromHex(SubSeq(state, HexLen + 1, Len(state)))]

\* The digest of a whole byte sequence hashed in one pass.
DigestOf(data) == hexdigest(update(sha512, data))

(***************************************************************************)
(* State.                                                                  *)
(***************************************************************************)
VARIABLES
    files,      \* the filesystem: a function from each existing path to its bytes
    dirs,       \* the shard directories that exist under the root
    uploads,    \* the upload document of each session (NoUpload before and after)
    records,    \* the file documents in the database (NoFile where there is none)
    fin,        \* finalizeUpload of each session: its position and local variables
    del,        \* deleteFile of each file document: its position, its local
                \* variables, and (history) how many documents of the digest
                \* had been saved when its query ran
    sent,       \* history: the non-empty chunks each session accepted, in order
    crashed,    \* history: whether a crash hit one of the session's uploadChunk calls
    last,       \* history: the last handler call and how it ended
    dl,         \* downloadFile: the stream function it returned and the
                \* generator of its latest call
    scan,       \* findInvalidFiles: the generator of its latest call
    uc,         \* uploadChunk taken step by step: its position, its local
                \* variables and its open file
    can,        \* cancelUpload of each caller: its position and how it ended
    info,       \* validateInfo: the root directory and the outcome of the call
    cap,        \* capacityInfo: what it returned or raised
    tree,       \* the directories outside the assetstore and the times their
                \* files were last modified
    db,         \* the folders, items and file documents made by importData
    imp,        \* importData: how its latest call ended, and its progress
    fds,        \* the file descriptors mkstemp returned that are still open
    apidocs     \* girder/api/docs.py: the routes dictionary, and (history)
                \* the latest call of addRouteDocs or removeRouteDocs

vars == <<files, dirs, uploads, records, fin, del, sent, crashed, last, dl, scan,
          uc, can, info, cap, tree, db, imp, fds, apidocs>>

NoUpload == [size |-> -1]
NoFile == [size |-> -1]
NoCall == [op |-> "none", sid |-> 0, raised |-> "none", known |-> FALSE,
           catchup |-> FALSE, oversize |-> FALSE]
FinIdle == [pc |-> "idle", hash |-> <<>>, file |-> NoFile, moved |-> FALSE]
DelIdle == [pc |-> "idle", count |-> 0, saved |-> 0]

NoChunk == [pc |-> "idle", sid |-> 0, chunk |-> <<>>, rest |-> <<>>,
            checksum |-> sha512, size |-> 0, handle |-> "closed", inode |-> <<>>,
            raised |-> "none"]
NumCallers == 2
Callers == 1..NumCallers
CanIdle == [pc |-> "idle", sid |-> 0, raised |-> "none"]
NoDir == [kind |-> "absent", writable |-> FALSE, parent |-> FALSE, umask |-> FALSE]
NoInfo == [pc |-> "none", given |-> <<>>, root |-> <<>>, before |-> NoDir,
           fs |-> NoDir, raised |-> "none", temp |-> "absent"]
NoneBytes == -1
NoCap == [pc |-> "none",
          query |-> [raised |-> "none", free |-> NoneBytes, total |-> NoneBytes], free |-> NoneBytes, total |-> NoneBytes,
          raised |-> "none"]
NoTree == [dirs |-> {}, mtime |-> <<>>, reversed |-> FALSE]
NoDb == [folders |-> {}, items |-> {}, files |-> {}]
NoImport == [pc |-> "none", raised |-> "none", importPath |-> <<>>,
             parent |-> [id |-> 0], parentType |-> "none", log |-> <<>>,
             before |-> NoDb, run |-> 0, prev |-> <<>>]

NoHash == <<>>
NoneEnd == -1
NoStream == [pc |-> "none", raised |-> "none", file |-> NoFile, path |-> <<>>,
             offset |-> 0, endByte |-> 0, asked |-> NoneEnd, bytesRead |-> 0,
             pos |-> 0, data |-> <<>>, chunks |-> <<>>, pulls |-> 0, run |-> 0,
             prev |-> <<>>]
NoScan == [pc |-> "none", filters |-> <<>>, checkSize |-> FALSE,
           cursor |-> <<>>, total |-> 0, current |-> 0, log |-> <<>>,
           findings |-> <<>>, run |-> 0, prev |-> <<>>]

RECURSIVE Flat(_)
Flat(chunks) == IF chunks = <<>> THEN <<>> ELSE chunks[1] \o Flat(Drop(chunks, 1))

TempPath(name) == <<"temp", name>>
TempNames == 1..NumSessions

Exists(fs, path) == path \in DOMAIN fs
Remove(fs, path) == [p \in DOMAIN fs \ {path} |-> fs[p]]
Put(fs, path, data) == [p \in DOMAIN fs \cup {path} |-> IF p = path THEN data ELSE fs[p]]

\* The frame of the handlers of uploads, stored files and readers, and in
\* addition that of every step that is not a step of a reader.
Rest == UNCHANGED <<uc, can, info, cap, tree, db, imp, fds, apidocs>>
Writes == UNCHANGED <<dl, scan>> /\ Rest

(***************************************************************************)
(* initUpload: mkstemp creates an empty file under a name not in use, and  *)
(* the state of a fresh SHA-512 is stored in the document.                 *)
(***************************************************************************)
FreshNameAny(name) == TRUE

\* mkstemp draws the name of the file at random among those not in use; a
\* name that an upload document still holds is not drawn again.
FreshName(name) ==
    /\ ~Exists(files, TempPath(name))
    /\ \A t \in Sessions :
          uploads[t] # NoUpload => uploads[t].tempFile # TempPath(name)

initUpload(upload, path) ==
    [size |-> upload.size, received |-> upload.received,
     tempFile |-> path, sha512state |-> serializeHex(sha512)]

InitUpload(s) ==
    /\ uploads[s] = NoUpload
    /\ fin[s].pc = "idle"
    /\ \E size \in 0..MaxSize, name \in TempNames :
         /\ FreshName(name)
         /\ files' = Put(files, TempPath(name), <<>>)
         /\ uploads' = [uploads EXCEPT
                ![s] = initUpload([size |-> size, received |-> 0], TempPath(name))]
    /\ sent' = [sent EXCEPT ![s] = <<>>]
    /\ crashed' = [crashed EXCEPT ![s] = FALSE]
    /\ last' = [NoCall EXCEPT !.op = "initUpload", !.sid = s]
    /\ UNCHANGED <<dirs, records, fin, del>>
    /\ Writes

(***************************************************************************)
(* uploadChunk.                                                            *)
(***************************************************************************)
\* getChunkSize: the length of a string chunk, None (here -1) for a stream
\* whose length cannot be told.
NoneSize == -1
getChunkSize(chunk, known) == IF known THEN Len(chunk) ELSE NoneSize

checkUploadSizeNever(upload, chunkSize) == FALSE

\* checkUploadSize: TRUE when it raises ValidationException.
checkUploadSize(upload, chunkSize) ==
    /\ chunkSize # NoneSize
    /\ upload.received + chunkSize > upload.size

\* requestOffset: the size of the temp file.
requestOffset(upload, fs) == Len(fs[upload.tempFile])

\* Line 138: the checksum resumes from the state stored in the document.
RestoreChecksumFresh(upload) == sha512

RestoreChecksum(upload) == restoreHex(upload.sha512state)

\* Lines 140-150: the bytes of the temp file past `received` are read to the
\* end of the file, BUF_SIZE at a time, into the checksum.
RECURSIVE ReadGap(_, _)
ReadGap(checksum, rest) ==
    LET data == Take(rest, BUF_SIZE)
    IN  IF data = <<>> THEN checksum
        ELSE ReadGap(update(checksum, data), Drop(rest, BUF_SIZE))

CatchUpSkipped(upload, fs, checksum) == checksum

CatchUp(upload, fs, checksum) ==
    IF requestOffset(upload, fs) > upload.received
    THEN ReadGap(checksum, Drop(fs[upload.tempFile], upload.received))
    ELSE checksum

\* Lines 152-160: the chunk is read BUF_SIZE at a time; each piece is
\* appended to the temp file and fed to the checksum, until the chunk ends
\* or the bytes received pass the declared size.
RECURSIVE WriteLoop(_, _, _)
WriteLoop(upload, rest, w) ==
    IF upload.received + w.size > upload.size THEN w
    ELSE LET data == Take(rest, BUF_SIZE)
         IN  IF data = <<>> THEN w
             ELSE WriteLoop(upload, Drop(rest, BUF_SIZE),
                            [size |-> w.size + Len(data),
                             written |-> w.written \o data,
                             checksum |-> update(w.checksum, data)])

\* tempFile.truncate(n) on a file opened 'a+b'.
TruncateNothing(data, n) == data

Truncate(data, n) ==
    IF Len(data) >= n THEN SubSeq(data, 1, n)
    ELSE data \o [i \in 1..(n - Len(data)) |-> 0]

WriteAtStart(data, written) == written \o data

\* Lines 152 and 159: tempFile.write on a file opened 'a+b' puts the bytes
\* at the end of the file, wherever the position of the handle is.
Write(data, written) == data \o written

\* The handler as a function of the document and the filesystem: the
\* document and filesystem it leaves, and the exception it raises.
uploadChunk(upload, fs, chunk, known) ==
    IF checkUploadSize(upload, getChunkSize(chunk, known))
    THEN [upload |-> upload, files |-> fs, raised |-> "ValidationException"]
    ELSE IF ~Exists(fs, upload.tempFile)
    THEN [upload |-> upload, files |-> fs, raised |-> "OSError"]
    ELSE
    LET checksum == CatchUp(upload, fs, RestoreChecksum(upload))
        w == WriteLoop(upload, chunk,
                       [size |-> 0, written |-> <<>>, checksum |-> checksum])
        appended == Write(fs[upload.tempFile], w.written)
    IN  IF checkUploadSize(upload, w.size)
        THEN [upload |-> upload,
              files |-> Put(fs, upload.tempFile, Truncate(appended, upload.received)),
              raised |-> "ValidationException"]
        ELSE [upload |-> [upload EXCEPT !.sha512state = serializeHex(w.checksum),
                                        !.received = upload.received + w.size],
              files |-> Put(fs, upload.tempFile, appended),
              raised |-> "none"]

\* The guard on the count of absorbed bytes keeps the digest register finite:
\* a session whose file and document agree never absorbs more than
\* MaxSize + MaxGap bytes.
UploadChunkOf(s, chunks) ==
    /\ uploads[s] # NoUpload
    /\ restoreHex(uploads[s].sha512state).n <= MaxSize + MaxGap
    /\ \E chunk \in chunks, known \in BOOLEAN :
         LET r == uploadChunk(uploads[s], files, chunk, known)
         IN  /\ uploads' = [uploads EXCEPT ![s] = r.upload]
             /\ files' = r.files
             /\ sent' = [sent EXCEPT
                    ![s] = IF r.raised = "none" /\ chunk # <<>>
                           THEN Append(sent[s], chunk) ELSE sent[s]]
             /\ last' = [op |-> "uploadChunk", sid |-> s, raised |-> r.raised,
                         known |-> known,
                         oversize |-> uploads[s].received + Len(chunk)
                                        > uploads[s].size,
                         catchup |-> /\ Exists(files, uploads[s].tempFile)
                                     /\ requestOffset(uploads[s], files)
                                            > uploads[s].received]
    /\ UNCHANGED <<dirs, records, fin, del, crashed>>
    /\ Writes

UploadChunk(s) == UploadChunkOf(s, Chunks)

(***************************************************************************)
(* The server dies inside uploadChunk after some of the chunk's bytes      *)
(* reached the temp file and before the upload document is saved (the      *)
(* case the comment at lines 141-143 describes).  The model lets one crash  *)
(* hit a session, leaving at most MaxGap bytes the document does not       *)
(* count.                                                                  *)
(***************************************************************************)
Crash(s) ==
    /\ uploads[s] # NoUpload
    /\ ~crashed[s]
    /\ Exists(files, uploads[s].tempFile)
    /\ \E chunk \in Chunks, known \in BOOLEAN :
         /\ ~checkUploadSize(uploads[s], getChunkSize(chunk, known))
         /\ LET w == WriteLoop(uploads[s], chunk,
                               [size |-> 0, written |-> <<>>, checksum |-> sha512])
            IN  \E k \in 1..Len(w.written) :
                  /\ requestOffset(uploads[s], files) + k
                        <= uploads[s].received + MaxGap
                  /\ files' = Put(files, uploads[s].tempFile,
                               files[uploads[s].tempFile] \o Take(w.written, k))
    /\ crashed' = [crashed EXCEPT ![s] = TRUE]
    /\ last' = [NoCall EXCEPT !.op = "crash", !.sid = s]
    /\ UNCHANGED <<dirs, uploads, records, fin, del, sent>>
    /\ Writes

(***************************************************************************)
(* finalizeUpload.  A stored file's path relative to the root is           *)
(* hash[0:2]/hash[2:4]/hash, written here as a triple; the temp files are  *)
(* the pairs <<"temp", name>>.                                             *)
(***************************************************************************)
FinalHash(upload) == hexdigest(restoreHex(upload.sha512state))
ShardDir(hash) == <<SubSeq(hash, 1, 2), SubSeq(hash, 3, 4)>>
StorePathShifted(hash) == <<SubSeq(hash, 1, 2), SubSeq(hash, 4, 5), hash>>

StorePath(hash) == <<SubSeq(hash, 1, 2), SubSeq(hash, 3, 4), hash>>
IsTemp(path) == Len(path) = 2

\* The files published under the root, as opposed to temp files.
IsStored(p) == Len(p) = 3

\* shutil.move onto a path: a rename, which replaces a file already there.
MoveKeepsSource(fs, src, dst) == Put(fs, dst, fs[src])

Move(fs, src, dst) == Put(Remove(fs, src), dst, fs[src])

RemoveOrMoveKeepsTemp(fs, tempFile, abspath) ==
    IF Exists(fs, abspath) THEN fs ELSE Move(fs, tempFile, abspath)

\* Lines 196-202 on the filesystem: the temp file is removed when the
\* stored file exists, and moved into place otherwise.
RemoveOrMove(fs, tempFile, abspath) ==
    IF Exists(fs, abspath) THEN Remove(fs, tempFile)
    ELSE Move(fs, tempFile, abspath)

\* Lines 209-210: the fields finalizeUpload sets in the file document.
FileDoc(hash, size) ==
    [sha512 |-> hash, path |-> StorePath(hash), size |-> size, imported |-> FALSE]

\* The whole handler, run without interruption, and the save of the file
\* document and removal of the upload document that its caller does next.
FinalizeUpload(s) ==
    /\ uploads[s] # NoUpload
    /\ fin[s].pc = "idle"
    /\ uploads[s].received = uploads[s].size
    /\ Exists(files, uploads[s].tempFile)
    /\ LET hash == FinalHash(uploads[s])
           abspath == StorePath(hash)
       IN  /\ dirs' = dirs \cup {ShardDir(hash)}
           /\ files' = RemoveOrMove(files, uploads[s].tempFile, abspath)
           /\ records' = [records EXCEPT ![s] = FileDoc(hash, uploads[s].size)]
           /\ fin' = [fin EXCEPT ![s] =
                        [pc |-> "saved", hash |-> hash,
                         file |-> FileDoc(hash, uploads[s].size),
                         moved |-> ~Exists(files, abspath)]]
    /\ uploads' = [uploads EXCEPT ![s] = NoUpload]
    /\ last' = [NoCall EXCEPT !.op = "finalizeUpload", !.sid = s]
    /\ UNCHANGED <<del, sent, crashed>>
    /\ Writes

(***************************************************************************)
(* A complete upload in one step: initUpload and one uploadChunk of the    *)
(* whole content.  SpecStore starts its sessions with it.  Of the contents *)
(* it uploads, <<>> and <<0, 0>> have distinct digests in one shard        *)
(* directory (00000 and 00001), and <<0>> and <<1>> lie in two others.     *)
(***************************************************************************)
StoreContents == SeqsUpTo(1) \cup {<<0, 0>>}

Upload(s) ==
    /\ uploads[s] = NoUpload
    /\ fin[s].pc = "idle"
    /\ \E content \in StoreContents, name \in TempNames :
         /\ FreshName(name)
         /\ LET upload == initUpload([size |-> Len(content), received |-> 0],
                                     TempPath(name))
                r == uploadChunk(upload, Put(files, TempPath(name), <<>>),
                                 content, TRUE)
            IN  /\ uploads' = [uploads EXCEPT ![s] = r.upload]
                /\ files' = r.files
         /\ sent' = [sent EXCEPT
                ![s] = IF content = <<>> THEN <<>> ELSE <<content>>]
    /\ UNCHANGED <<dirs, records, fin, del, crashed, last>>
    /\ Writes

(***************************************************************************)
(* finalizeUpload step by step: every access to the filesystem is a step   *)
(* of its own, so that two calls interleave between them.                  *)
(***************************************************************************)
\* Lines 186-193: the hash and the paths, then os.path.exists(absdir).
FinCheckDir(s) ==
    /\ uploads[s] # NoUpload
    /\ fin[s].pc = "idle"
    /\ uploads[s].received = uploads[s].size
    /\ LET hash == FinalHash(uploads[s])
       IN  fin' = [fin EXCEPT ![s] =
                     [@ EXCEPT !.hash = hash,
                               !.pc = IF ShardDir(hash) \in dirs
                                      THEN "checkfile" ELSE "makedirs"]]
    /\ UNCHANGED <<files, dirs, uploads, records, del, sent, crashed, last>>
    /\ Writes

\* Line 194: os.makedirs(absdir) raises OSError when absdir exists.
FinMakedirs(s) ==
    /\ fin[s].pc = "makedirs"
    /\ IF ShardDir(fin[s].hash) \in dirs
       THEN /\ fin' = [fin EXCEPT ![s].pc = "raised"]
            /\ dirs' = dirs
       ELSE /\ fin' = [fin EXCEPT ![s].pc = "checkfile"]
            /\ dirs' = dirs \cup {ShardDir(fin[s].hash)}
    /\ UNCHANGED <<files, uploads, records, del, sent, crashed, last>>
    /\ Writes

\* Line 196: os.path.exists(abspath).
FinCheckFile(s) ==
    /\ fin[s].pc = "checkfile"
    /\ fin' = [fin EXCEPT ![s].pc =
                 IF Exists(files, StorePath(fin[s].hash)) THEN "remove" ELSE "move"]
    /\ UNCHANGED <<files, dirs, uploads, records, del, sent, crashed, last>>
    /\ Writes

\* Line 198, then lines 209-212.
FinRemove(s) ==
    /\ fin[s].pc = "remove"
    /\ files' = Remove(files, uploads[s].tempFile)
    /\ fin' = [fin EXCEPT ![s].pc = "returned",
                          ![s].file = FileDoc(fin[s].hash, uploads[s].size)]
    /\ UNCHANGED <<dirs, uploads, records, del, sent, crashed, last>>
    /\ Writes

\* Lines 202-207, then lines 209-212.
FinMove(s) ==
    /\ fin[s].pc = "move"
    /\ files' = Move(files, uploads[s].tempFile, StorePath(fin[s].hash))
    /\ fin' = [fin EXCEPT ![s].pc = "returned", ![s].moved = TRUE,
                          ![s].file = FileDoc(fin[s].hash, uploads[s].size)]
    /\ UNCHANGED <<dirs, uploads, records, del, sent, crashed, last>>
    /\ Writes

\* The caller of finalizeUpload saves the file document it returned and
\* removes the upload document.
SaveFile(s) ==
    /\ fin[s].pc = "returned"
    /\ records' = [records EXCEPT ![s] = fin[s].file]
    /\ uploads' = [uploads EXCEPT ![s] = NoUpload]
    /\ fin' = [fin EXCEPT ![s].pc = "saved"]
    /\ UNCHANGED <<files, dirs, del, sent, crashed, last>>
    /\ Writes

(***************************************************************************)
(* deleteFile step by step, and the removal of the file document that its  *)
(* caller does once it returned.                                           *)
(***************************************************************************)
\* Lines 273-278: the file documents with this sha512, at most 2 counted.
CountMatching(recs, file) ==
    LET matching == {q \in DOMAIN recs :
                        recs[q] # NoFile /\ recs[q].sha512 = file.sha512}
    IN  IF Cardinality(matching) > 2 THEN 2 ELSE Cardinality(matching)

\* The documents of this digest that have been saved so far, deleted since
\* or not.
SavedSoFar(file) ==
    Cardinality({s \in Sessions : fin[s].pc = "saved" /\ fin[s].hash = file.sha512})

\* os.path.join(root, path): the files under the root are known to the model
\* by their path relative to it, and the join of the root and an absolute
\* path is the absolute path.
JoinRoot(path) == path

\* Lines 219 and 270: file.get('imported').
IsImportedNever(file) == FALSE

IsImported(file) == file.imported

\* Line 278: the file on disk is this document's alone.
AnyReference(count) == count >= 1

OnlyReference(count) == count = 1

DelQuery(r) ==
    /\ records[r] # NoFile
    /\ del[r].pc = "idle"
    /\ IF IsImported(records[r])
       THEN del' = [del EXCEPT ![r].pc = "removedoc"]
       ELSE LET count == CountMatching(records, records[r])
            IN  del' = [del EXCEPT ![r] =
                          [pc |-> IF OnlyReference(count) THEN "isfile" ELSE "removedoc",
                           count |-> count,
                           saved |-> SavedSoFar(records[r])]]
    /\ UNCHANGED <<files, dirs, uploads, records, fin, sent, crashed, last>>
    /\ Writes

\* Lines 279-280: os.path.isfile(path).
DelIsFile(r) ==
    /\ del[r].pc = "isfile"
    /\ del' = [del EXCEPT ![r].pc =
                 IF Exists(files, records[r].path) THEN "osremove" ELSE "removedoc"]
    /\ UNCHANGED <<files, dirs, uploads, records, fin, sent, crashed, last>>
    /\ Writes

\* Line 281: os.remove(path) raises OSError when the file is gone.
DelOsRemove(r) ==
    /\ del[r].pc = "osremove"
    /\ IF Exists(files, records[r].path)
       THEN /\ files' = Remove(files, records[r].path)
            /\ del' = [del EXCEPT ![r].pc = "removedoc"]
       ELSE /\ files' = files
            /\ del' = [del EXCEPT ![r].pc = "raised"]
    /\ UNCHANGED <<dirs, uploads, records, fin, sent, crashed, last>>
    /\ Writes

RemoveDoc(r) ==
    /\ del[r].pc = "removedoc"
    /\ records' = [records EXCEPT ![r] = NoFile]
    /\ del' = [del EXCEPT ![r].pc = "done"]
    /\ UNCHANGED <<files, dirs, uploads, fin, sent, crashed, last>>
    /\ Writes

(***************************************************************************)
(* deleteFile run without interruption, followed by the removal of the     *)
(* file document that its caller does.                                     *)
(***************************************************************************)
DeleteFile(r) ==
    /\ records[r] # NoFile
    /\ del[r].pc = "idle"
    /\ LET file == records[r]
           count == IF IsImported(file) THEN 0 ELSE CountMatching(records, file)
           path == JoinRoot(file.path)
       IN  /\ files' = IF /\ ~IsImported(file)
                          /\ OnlyReference(count)
                          /\ Exists(files, path)
                       THEN Remove(files, path)
                       ELSE files
           /\ del' = [del EXCEPT ![r] =
                        [pc |-> "done", count |-> count,
                         saved |-> IF IsImported(file) THEN 0 ELSE SavedSoFar(file)]]
    /\ records' = [records EXCEPT ![r] = NoFile]
    /\ UNCHANGED <<dirs, uploads, fin, sent, crashed, last>>
    /\ Writes

(***************************************************************************)
(* cancelUpload, and the removal of the upload document that its caller    *)
(* does afterwards.                                                        *)
(***************************************************************************)
CancelUpload(s) ==
    /\ uploads[s] # NoUpload
    /\ fin[s].pc = "idle"
    /\ files' = IF Exists(files, uploads[s].tempFile)
                THEN Remove(files, uploads[s].tempFile)
                ELSE files
    /\ UNCHANGED <<dirs, uploads, records, fin, del, sent, crashed, last>>
    /\ Writes

\* The upload document of a cancelled upload is removed.
RemoveUpload(s) ==
    /\ uploads[s] # NoUpload
    /\ fin[s].pc = "idle"
    /\ ~Exists(files, uploads[s].tempFile)
    /\ \A c \in Callers : can[c].sid = s => can[c].pc = "done"
    /\ ~(uc.sid = s /\ uc.pc \notin {"idle", "done"})
    /\ uploads' = [uploads EXCEPT ![s] = NoUpload]
    /\ sent' = [sent EXCEPT ![s] = <<>>]
    /\ can' = [c \in Callers |-> IF can[c].sid = s THEN CanIdle ELSE can[c]]
    /\ uc' = IF uc.sid = s THEN NoChunk ELSE uc
    /\ UNCHANGED <<files, dirs, records, fin, del, crashed, last>>
    /\ UNCHANGED <<dl, scan, info, cap, tree, db, imp, fds, apidocs>>

(***************************************************************************)
(* uploadChunk step by step: every access to the temp file is a step of    *)
(* its own, so that cancelUpload interleaves between them.  A file that is *)
(* unlinked while the call holds it open lives on behind the handle: the   *)
(* writes of the call go to it, and it is gone when the handle is closed.  *)
(* open(path, 'a+b') creates the file when there is none.                  *)
(***************************************************************************)
UcIdle == uc.pc \in {"idle", "done"}

\* Lines 129-138: the early check of the size, and the checksum restored
\* from the document.
UcBegin(s, chunks) ==
    /\ UcIdle
    /\ uploads[s] # NoUpload
    /\ restoreHex(uploads[s].sha512state).n <= MaxSize + MaxGap
    /\ \E chunk \in chunks, known \in BOOLEAN :
         uc' = IF checkUploadSize(uploads[s], getChunkSize(chunk, known))
               THEN [NoChunk EXCEPT !.pc = "done", !.sid = s, !.chunk = chunk,
                                    !.raised = "ValidationException"]
               ELSE [NoChunk EXCEPT !.pc = "stat", !.sid = s, !.chunk = chunk,
                                    !.rest = chunk,
                                    !.checksum = RestoreChecksum(uploads[s])]
    /\ UNCHANGED <<files, dirs, uploads, records, fin, del, sent, crashed, last>>
    /\ UNCHANGED <<dl, scan, can, info, cap, tree, db, imp, fds, apidocs>>

\* Line 140: requestOffset stats the temp file.
UcStat ==
    /\ uc.pc = "stat"
    /\ uc' = IF ~Exists(files, uploads[uc.sid].tempFile)
             THEN [uc EXCEPT !.pc = "done", !.raised = "OSError"]
             ELSE IF requestOffset(uploads[uc.sid], files) > uploads[uc.sid].received
             THEN [uc EXCEPT !.pc = "catchup"]
             ELSE [uc EXCEPT !.pc = "open"]
    /\ UNCHANGED <<files, dirs, uploads, records, fin, del, sent, crashed, last>>
    /\ UNCHANGED <<dl, scan, can, info, cap, tree, db, imp, fds, apidocs>>

\* Lines 144-150: the temp file is opened for reading and the bytes past
\* `received` go into the checksum.
UcCatchUp ==
    /\ uc.pc = "catchup"
    /\ uc' = IF ~Exists(files, uploads[uc.sid].tempFile)
             THEN [uc EXCEPT !.pc = "done", !.raised = "IOError"]
             ELSE [uc EXCEPT !.pc = "open",
                             !.checksum = ReadGap(uc.checksum,
                                              Drop(files[uploads[uc.sid].tempFile],
                                                   uploads[uc.sid].received))]
    /\ UNCHANGED <<files, dirs, uploads, records, fin, del, sent, crashed, last>>
    /\ UNCHANGED <<dl, scan, can, info, cap, tree, db, imp, fds, apidocs>>

\* open(path, 'a+b') on the filesystem.
OpenAppend(fs, path) == IF Exists(fs, path) THEN fs ELSE Put(fs, path, <<>>)

\* Line 152.
UcOpen ==
    /\ uc.pc = "open"
    /\ files' = OpenAppend(files, uploads[uc.sid].tempFile)
    /\ uc' = [uc EXCEPT !.pc = "write", !.handle = "linked", !.size = 0]
    /\ UNCHANGED <<dirs, uploads, records, fin, del, sent, crashed, last>>
    /\ UNCHANGED <<dl, scan, can, info, cap, tree, db, imp, fds, apidocs>>

\* Line 154 and 155-157: the loop ends when the bytes received pass the
\* declared size or the chunk is read to its end.
UcLoopEnds ==
    \/ uploads[uc.sid].received + uc.size > uploads[uc.sid].size
    \/ uc.rest = <<>>

\* Lines 155-160: one turn of the loop.
UcWrite ==
    /\ uc.pc = "write"
    /\ ~UcLoopEnds
    /\ LET data == Take(uc.rest, BUF_SIZE)
           path == uploads[uc.sid].tempFile
       IN  /\ files' = IF uc.handle = "linked"
                       THEN Put(files, path, files[path] \o data)
                       ELSE files
           /\ uc' = [uc EXCEPT !.rest = Drop(uc.rest, BUF_SIZE),
                               !.size = uc.size + Len(data),
                               !.checksum = update(uc.checksum, data),
                               !.inode = IF uc.handle = "linked" THEN <<>>
                                         ELSE uc.inode \o data]
    /\ UNCHANGED <<dirs, uploads, records, fin, del, sent, crashed, last>>
    /\ UNCHANGED <<dl, scan, can, info, cap, tree, db, imp, fds, apidocs>>

\* Lines 161-165 and 171-173: the file is closed and the size is checked
\* again; when it passes, the document takes the checksum and the bytes.
UcCheck ==
    /\ uc.pc = "write"
    /\ UcLoopEnds
    /\ IF checkUploadSize(uploads[uc.sid], uc.size)
       THEN /\ uc' = [uc EXCEPT !.pc = "truncate", !.handle = "closed",
                                !.inode = <<>>]
            /\ UNCHANGED <<uploads, sent>>
       ELSE /\ uc' = [uc EXCEPT !.pc = "done", !.handle = "closed",
                                !.inode = <<>>]
            /\ uploads' = [uploads EXCEPT
                   ![uc.sid].sha512state = serializeHex(uc.checksum),
                   ![uc.sid].received = uploads[uc.sid].received + uc.size]
            /\ sent' = [sent EXCEPT
                   ![uc.sid] = IF uc.chunk # <<>> THEN Append(sent[uc.sid], uc.chunk)
                               ELSE sent[uc.sid]]
    /\ UNCHANGED <<files, dirs, records, fin, del, crashed, last>>
    /\ UNCHANGED <<dl, scan, can, info, cap, tree, db, imp, fds, apidocs>>

\* Lines 166-168: the temp file is opened again, cut back to `received`,
\* and the exception goes on to the caller.
UcTruncate ==
    /\ uc.pc = "truncate"
    /\ LET path == uploads[uc.sid].tempFile
           opened == OpenAppend(files, path)
       IN  files' = Put(opened, path, Truncate(opened[path], uploads[uc.sid].received))
    /\ uc' = [uc EXCEPT !.pc = "done", !.raised = "ValidationException"]
    /\ UNCHANGED <<dirs, uploads, records, fin, del, sent, crashed, last>>
    /\ UNCHANGED <<dl, scan, can, info, cap, tree, db, imp, fds, apidocs>>

(***************************************************************************)
(* cancelUpload step by step.                                              *)
(***************************************************************************)
\* os.path.exists on the filesystem.
PathExistsAlways(fs, path) == TRUE

PathExists(fs, path) == Exists(fs, path)

\* Line 287: os.path.exists(upload['tempFile']).
CanExists(c, s) ==
    /\ can[c].pc = "idle"
    /\ uploads[s] # NoUpload
    /\ fin[s].pc = "idle"
    /\ can' = [can EXCEPT ![c] =
                 [pc |-> IF PathExists(files, uploads[s].tempFile) THEN "unlink"
                         ELSE "done",
                  sid |-> s, raised |-> "none"]]
    /\ UNCHANGED <<files, dirs, uploads, records, fin, del, sent, crashed, last>>
    /\ UNCHANGED <<dl, scan, uc, info, cap, tree, db, imp, fds, apidocs>>

UnlinkRaisesNever(fs, path) == FALSE

\* os.unlink on the filesystem; it raises OSError when there is no file.
UnlinkRaises(fs, path) == ~Exists(fs, path)

\* Line 288: os.unlink(upload['tempFile']).
CanUnlink(c) ==
    /\ can[c].pc = "unlink"
    /\ LET path == uploads[can[c].sid].tempFile
       IN  IF UnlinkRaises(files, path)
           THEN /\ can' = [can EXCEPT ![c].pc = "done", ![c].raised = "OSError"]
                /\ UNCHANGED <<files, uc>>
           ELSE /\ can' = [can EXCEPT ![c].pc = "done"]
                /\ files' = IF Exists(files, path) THEN Remove(files, path) ELSE files
                /\ uc' = IF uc.handle = "linked" /\ uc.sid = can[c].sid
                         THEN [uc EXCEPT !.handle = "orphan", !.inode = files[path]]
                         ELSE uc
    /\ UNCHANGED <<dirs, uploads, records, fin, del, sent, crashed, last>>
    /\ UNCHANGED <<dl, scan, info, cap, tree, db, imp, fds, apidocs>>

(***************************************************************************)
(* validateInfo.  What the operating system answers about the root is kept *)
(* in info.fs: what is at the path (nothing, a directory, a file), whether *)
(* the process may write it, whether os.makedirs can create it (`parent`), *)
(* and whether a directory the process creates comes out writable under    *)
(* its umask.                                                              *)
(***************************************************************************)
Home == <<"/", "home", "girder">>

\* The values of doc['root']: absolute, relative, under the home directory
\* of the user running the server, and under that of a user that does not
\* exist.
Roots == {<<"/", "srv", "store">>, <<"store">>, <<"~", "store">>, <<"~nobody", "store">>}

RootStates == [kind : {"absent", "dir", "file"}, writable : BOOLEAN,
               parent : BOOLEAN, umask : BOOLEAN]

\* os.path.expanduser replaces a first component ~ and leaves ~user of an
\* unknown user as it is.
expanduser(path) == IF path # <<>> /\ path[1] = "~" THEN Home \o Tail(path) ELSE path

isabs(path) == path # <<>> /\ path[1] = "/"

isdir(fsr) == fsr.kind = "dir"

\* os.makedirs: the directory is made when nothing is at the path and its
\* parent allows it; ok is FALSE when OSError is raised.
makedirs(fsr) ==
    IF fsr.kind = "absent" /\ fsr.parent
    THEN [ok |-> TRUE, fs |-> [fsr EXCEPT !.kind = "dir", !.writable = fsr.umask]]
    ELSE [ok |-> FALSE, fs |-> fsr]

\* os.access(root, os.W_OK).
accessAlways(fsr) == TRUE

access(fsr) == fsr.kind # "absent" /\ fsr.writable

\* Lines 57-70: the root the document is left with, the state of the
\* filesystem, and the exception raised.
validateInfo(root, fsr) ==
    LET expanded == expanduser(root)
        made == IF isdir(fsr) THEN [ok |-> TRUE, fs |-> fsr] ELSE makedirs(fsr)
    IN  IF ~isabs(expanded)
        THEN [root |-> expanded, fs |-> fsr, raised |-> "ValidationException"]
        ELSE IF ~made.ok
        THEN [root |-> expanded, fs |-> fsr, raised |-> "ValidationException"]
        ELSE IF ~access(made.fs)
        THEN [root |-> expanded, fs |-> made.fs, raised |-> "ValidationException"]
        ELSE [root |-> expanded, fs |-> made.fs, raised |-> "none"]

\* Somebody changes what is at the root path: what a validation found is
\* no longer known to hold.
RootChange ==
    /\ \E st \in RootStates :
         /\ st # info.fs \/ info.pc # "none"
         /\ info' = [NoInfo EXCEPT !.fs = st]
    /\ UNCHANGED <<files, dirs, uploads, records, fin, del, sent, crashed, last>>
    /\ UNCHANGED <<dl, scan, uc, can, cap, tree, db, imp, fds, apidocs>>

ValidateInfo ==
    /\ info.pc = "none"
    /\ \E root \in Roots :
         LET r == validateInfo(root, info.fs)
         IN  info' = [pc |-> "validated", given |-> root, root |-> r.root,
                      before |-> info.fs, fs |-> r.fs, raised |-> r.raised,
                      temp |-> "absent"]
    /\ UNCHANGED <<files, dirs, uploads, records, fin, del, sent, crashed, last>>
    /\ UNCHANGED <<dl, scan, uc, can, cap, tree, db, imp, fds, apidocs>>

\* Lines 80-93: the adapter of an assetstore that passed validation makes
\* its temp directory under the root, the first write under it; a failure
\* is logged.
AdapterInit ==
    /\ info.pc = "validated"
    /\ info.raised = "none"
    /\ info' = [info EXCEPT !.pc = "adapter",
                            !.temp = IF isdir(info.fs) /\ info.fs.writable
                                     THEN "dir" ELSE "absent"]
    /\ UNCHANGED <<files, dirs, uploads, records, fin, del, sent, crashed, last>>
    /\ UNCHANGED <<dl, scan, uc, can, cap, tree, db, imp, fds, apidocs>>

(***************************************************************************)
(* capacityInfo.  psutil.disk_usage(root) is a statvfs of the root: it     *)
(* raises FileNotFoundError when nothing is at the path, and it may raise  *)
(* PermissionError or another OSError whatever is there.                   *)
(***************************************************************************)
MaxBytes == 2

Usages == {u \in [free : 0..MaxBytes, total : 0..MaxBytes] : u.free <= u.total}

OSErrors == {"FileNotFoundError", "PermissionError", "OSError"}

\* The outcomes of psutil.disk_usage: a usage, or the exception raised.
disk_usage(fsr) ==
    IF fsr.kind = "absent"
    THEN {[raised |-> "FileNotFoundError", free |-> NoneBytes, total |-> NoneBytes]}
    ELSE {[raised |-> "none", free |-> u.free, total |-> u.total] : u \in Usages}
         \cup {[raised |-> e, free |-> NoneBytes, total |-> NoneBytes] :
                  e \in {"PermissionError", "OSError"}}

\* `except OSError` catches OSError and its subclasses.
CaughtOnlyBase(raised) == raised = "OSError"

Caught(raised) == raised \in OSErrors

\* Lines 100-111 for one outcome of the query.
capacityInfo(usage) ==
    IF usage.raised = "none"
    THEN [free |-> usage.free, total |-> usage.total, raised |-> "none"]
    ELSE IF Caught(usage.raised)
    THEN [free |-> NoneBytes, total |-> NoneBytes, raised |-> "none"]
    ELSE [free |-> NoneBytes, total |-> NoneBytes, raised |-> usage.raised]

CapacityInfo ==
    /\ \E usage \in disk_usage(info.fs) :
         LET r == capacityInfo(usage)
         IN  cap' = [pc |-> "returned", query |-> usage, free |-> r.free,
                     total |-> r.total, raised |-> r.raised]
    /\ UNCHANGED <<files, dirs, uploads, records, fin, del, sent, crashed, last>>
    /\ UNCHANGED <<dl, scan, uc, can, info, tree, db, imp, fds, apidocs>>

(***************************************************************************)
(* Files outside the assetstore.  Their absolute paths are written as      *)
(* 4-tuples </, srv, data, name>; the paths of the files under the root    *)
(* are written relative to it (temp files as pairs, stored files as        *)
(* triples), so that os.path.join(root, path) is the path itself.          *)
(***************************************************************************)
NumExternal == 1
LongLen == 3

ExtNames == 1..NumExternal
ExternalPath(name) == <<"/", "srv", "data", name>>
IsExternal(p) == Len(p) = 4
Cwd == <<"/", "srv">>

\* The contents an external file takes: empty, one byte, and one longer than
\* BUF_SIZE.
LongContent == [i \in 1..LongLen |-> i % 2]
ExtContents == {<<>>, <<1>>, LongContent}

\* os.path.abspath(os.path.expanduser(path)) of a path without ~.
abspath(path) == IF path[1] = "/" THEN path ELSE Cwd \o path

\* The paths importFile is called with: absolute, or relative to the
\* working directory of the server.
ImportPaths == {ExternalPath(k) : k \in ExtNames} \cup {<<"data", k>> : k \in ExtNames}

ImportDocHashed(path, size) ==
    [sha512 |-> DigestOf(<<>>), path |-> abspath(path), size |-> size,
     imported |-> TRUE]

\* Lines 309-314: the file document of an imported file; createFile gives
\* it no sha512.
ImportDoc(path, size) ==
    [sha512 |-> NoHash, path |-> abspath(path), size |-> size, imported |-> TRUE]

\* Somebody creates or overwrites a file outside the assetstore.
ExternalWrite ==
    /\ \E k \in ExtNames, data \in ExtContents :
         /\ ~(Exists(files, ExternalPath(k)) /\ files[ExternalPath(k)] = data)
         /\ files' = Put(files, ExternalPath(k), data)
    /\ UNCHANGED <<dirs, uploads, records, fin, del, sent, crashed, last>>
    /\ Writes

\* Somebody removes a stored file or a file outside the assetstore.
ExternalRemove ==
    /\ \E p \in DOMAIN files :
         /\ ~IsTemp(p)
         /\ files' = Remove(files, p)
    /\ UNCHANGED <<dirs, uploads, records, fin, del, sent, crashed, last>>
    /\ Writes

\* Somebody damages a stored file that was intact: its last byte is cut
\* off, or its first byte is changed.  The file is replaced, not written
\* in place.
Damaged(data) ==
    IF data = <<>> THEN {<<0>>}
    ELSE {SubSeq(data, 1, Len(data) - 1), <<1 - data[1]>> \o Drop(data, 1)}

ExternalRewrite ==
    /\ \E p \in DOMAIN files :
         /\ IsStored(p)
         /\ DigestOf(files[p]) = p[3]
         /\ \E data \in Damaged(files[p]) : files' = Put(files, p, data)
    /\ UNCHANGED <<dirs, uploads, records, fin, del, sent, crashed, last>>
    /\ Writes

(***************************************************************************)
(* importFile.  createFile(reuseExisting=True) returns the file document   *)
(* of this name in the item when there is one, and a new one otherwise;    *)
(* the name of an imported file is the last component of its path.         *)
(***************************************************************************)
FreeSlot(s) ==
    /\ records[s] = NoFile
    /\ uploads[s] = NoUpload
    /\ fin[s].pc = "idle"
    /\ del[s].pc = "idle"

ImportFile(s) ==
    /\ \E path \in ImportPaths :
         LET existing == {r \in Sessions : /\ records[r] # NoFile
                                           /\ records[r].imported
                                           /\ records[r].path = abspath(path)}
         IN  /\ IF existing = {} THEN FreeSlot(s) ELSE s \in existing
             /\ IF Exists(files, abspath(path))
                THEN /\ records' = [records EXCEPT
                           ![s] = ImportDoc(path, Len(files[abspath(path)]))]
                     /\ fin' = [fin EXCEPT ![s].pc = "imported"]
                     /\ last' = [NoCall EXCEPT !.op = "importFile", !.sid = s]
                ELSE /\ UNCHANGED <<records, fin>>
                     /\ last' = [NoCall EXCEPT !.op = "importFile", !.sid = s,
                                               !.raised = "OSError"]
    /\ UNCHANGED <<files, dirs, uploads, del, sent, crashed>>
    /\ Writes

(***************************************************************************)
(* importData.  The tree that is imported lies under /srv/data: its        *)
(* directories are in tree.dirs, its files in `files` with the time of     *)
(* their last modification in tree.mtime.  os.listdir gives the entries of *)
(* a directory in an order of its own, which stays the same while the      *)
(* directory does: by name, or the other way round (tree.reversed).        *)
(* The folder, item and file models are those of the database: a document  *)
(* gets the next free id, and with reuseExisting a document of the same    *)
(* name under the same parent is returned instead of a new one.            *)
(***************************************************************************)
MaxTime == 2

DataDir == <<"/", "srv", "data">>
TreeDirs == {DataDir, DataDir \o <<"a">>, DataDir \o <<"a", "c">>}
TreeFiles == {DataDir \o <<"t.txt">>, DataDir \o <<"a", "b.txt">>}
TreeNames == <<"a", "b.txt", "c", "t.txt">>
TreeContents == {<<>>, <<1, 0>>}
Times == 1..MaxTime

dirname(path) == SubSeq(path, 1, Len(path) - 1)
basename(path) == path[Len(path)]

\* Somebody makes a directory of the tree, in a directory that is there.
TreeMkdir ==
    /\ imp.pc = "none"
    /\ \E d \in TreeDirs \ tree.dirs :
         /\ d = DataDir \/ dirname(d) \in tree.dirs
         /\ tree' = [tree EXCEPT !.dirs = tree.dirs \cup {d}]
    /\ UNCHANGED <<files, dirs, uploads, records, fin, del, sent, crashed, last>>
    /\ UNCHANGED <<dl, scan, uc, can, info, cap, db, imp, fds, apidocs>>

\* Somebody writes a file of the tree, in a directory that is there.
TreeWrite ==
    /\ imp.pc = "none"
    /\ \E f \in TreeFiles \ DOMAIN files, data \in TreeContents, t \in Times :
         /\ dirname(f) \in tree.dirs
         /\ files' = Put(files, f, data)
         /\ tree' = [tree EXCEPT !.mtime = Put(tree.mtime, f, t)]
    /\ UNCHANGED <<dirs, uploads, records, fin, del, sent, crashed, last>>
    /\ UNCHANGED <<dl, scan, uc, can, info, cap, db, imp, fds, apidocs>>

\* The order in which os.listdir gives the entries.
TreeOrder ==
    /\ imp.pc = "none"
    /\ tree' = [tree EXCEPT !.reversed = ~tree.reversed]
    /\ UNCHANGED <<files, dirs, uploads, records, fin, del, sent, crashed, last>>
    /\ UNCHANGED <<dl, scan, uc, can, info, cap, db, imp, fds, apidocs>>

\* os.path.isdir, os.listdir and os.stat on a path, relative paths being
\* resolved against the working directory.
isdirIn(tr, path) == abspath(path) \in tr.dirs

Reverse(q) == [i \in 1..Len(q) |-> q[Len(q) + 1 - i]]

listdir(tr, fs, path) ==
    LET There(name) == \/ abspath(path) \o <<name>> \in tr.dirs
                       \/ abspath(path) \o <<name>> \in DOMAIN fs
        names == SelectSeq(TreeNames, There)
    IN  IF tr.reversed THEN Reverse(names) ELSE names

stat(tr, fs, path) ==
    [st_size |-> Len(fs[abspath(path)]), st_mtime |-> tr.mtime[abspath(path)]]

\* The documents among `docs` that reuseExisting finds.
ExistingNone(docs) == {}

Existing(docs) == docs

NextId(docs) == Cardinality(docs) + 1

\* folder.createFolder(parent, name, parentType, reuseExisting=True): the
\* database it leaves and the folder it returns.
createFolder(d, parent, name, parentType) ==
    LET existing == Existing({f \in d.folders : /\ f.parentId = parent.id
                                                /\ f.parentType = parentType
                                                /\ f.name = name})
        folder == [id |-> NextId(d.folders), parentId |-> parent.id,
                   parentType |-> parentType, name |-> name]
    IN  IF existing # {}
        THEN [db |-> d, doc |-> CHOOSE f \in existing : \A g \in existing : f.id <= g.id]
        ELSE [db |-> [d EXCEPT !.folders = d.folders \cup {folder}], doc |-> folder]

\* item.createItem(name, folder, reuseExisting=True).
createItem(d, name, folder) ==
    LET existing == Existing({i \in d.items : i.folderId = folder.id /\ i.name = name})
        item == [id |-> NextId(d.items), folderId |-> folder.id, name |-> name]
    IN  IF existing # {}
        THEN [db |-> d, doc |-> CHOOSE i \in existing : \A j \in existing : i.id <= j.id]
        ELSE [db |-> [d EXCEPT !.items = d.items \cup {item}], doc |-> item]

\* file.createFile(name, item, reuseExisting=True, size): a new document has
\* the size given and no sha512, path, mtime or imported yet.
createFile(d, name, item, size) ==
    LET existing == Existing({f \in d.files : f.itemId = item.id /\ f.name = name})
        file == [id |-> NextId(d.files), itemId |-> item.id, name |-> name]
                   @@ [ImportDoc(<<"/">>, size) EXCEPT !.path = <<>>, !.imported = FALSE]
                   @@ [mtime |-> 0]
    IN  IF existing # {}
        THEN CHOOSE f \in existing : \A g \in existing : f.id <= g.id
        ELSE file

\* file.save: the document takes the place of the one with its id.
save(d, file) ==
    [d EXCEPT !.files = {f \in d.files : f.id # file.id} \cup {file}]

importFileUnmarked(d, tr, fs, item, path, name) ==
    save(d, createFile(d, name, item, stat(tr, fs, path).st_size))

\* Lines 306-315.
importFile(d, tr, fs, item, path, name) ==
    LET st == stat(tr, fs, path)
        file == createFile(d, name, item, st.st_size)
    IN  save(d, [file EXCEPT !.path = abspath(expanduser(path)),
                             !.mtime = st.st_mtime,
                             !.imported = TRUE])

NoSuchDirectory == "ValidationException: No such directory"
InvalidParent == "ValidationException: Files cannot be imported directly underneath"

\* Line 331: the type of the parent in the call for a subdirectory.
ChildTypeSame(parentType) == parentType

ChildType(parentType) == "folder"

\* Lines 318-342.  `st` is what the call has done so far: the database, the
\* messages given to progress, and the exception raised.
RECURSIVE importData(_, _, _, _, _, _)
RECURSIVE ImportEntries(_, _, _, _, _, _, _)

\* Lines 323-342: the entries of importPath that are left.
ImportEntries(parent, parentType, importPath, names, st, tr, fs) ==
    IF names = <<>> \/ st.raised # "none" THEN st
    ELSE
    LET name == Head(names)
        path == importPath \o <<name>>
        told == [st EXCEPT !.log = Append(st.log, name)]
    IN  IF isdirIn(tr, path)
        THEN LET made == createFolder(told.db, parent, name, parentType)
                 below == importData(made.doc, ChildType(parentType), path,
                                     [told EXCEPT !.db = made.db], tr, fs)
             IN  ImportEntries(parent, parentType, importPath, Tail(names),
                               below, tr, fs)
        ELSE IF parentType # "folder"
        THEN [told EXCEPT !.raised = InvalidParent]
        ELSE LET made == createItem(told.db, name, parent)
                 saved == importFile(made.db, tr, fs, made.doc, path, name)
             IN  ImportEntries(parent, parentType, importPath, Tail(names),
                               [told EXCEPT !.db = saved], tr, fs)

importData(parent, parentType, importPath, st, tr, fs) ==
    IF ~isdirIn(tr, importPath)
    THEN [st EXCEPT !.raised = NoSuchDirectory]
    ELSE ImportEntries(parent, parentType, importPath,
                       listdir(tr, fs, importPath), st, tr, fs)

\* The calls made: the whole tree by its absolute path and by a path
\* relative to the working directory, a directory inside it, and a file;
\* under a folder and under a collection.
MaxImports == 2
TreeImportPaths == {DataDir, <<"data">>, DataDir \o <<"a">>, DataDir \o <<"t.txt">>}
ParentTypes == {"folder", "collection"}

ImportData ==
    /\ imp.run < MaxImports
    /\ \E importPath \in TreeImportPaths, parentType \in ParentTypes :
         LET r == importData([id |-> 0], parentType, importPath,
                             [db |-> db, log |-> <<>>, raised |-> "none"],
                             tree, files)
         IN  /\ db' = r.db
             /\ imp' = [pc |-> IF r.raised = "none" THEN "returned" ELSE "raised",
                        raised |-> r.raised, importPath |-> importPath,
                        parent |-> [id |-> 0], parentType |-> parentType,
                        log |-> r.log, before |-> db, run |-> imp.run + 1,
                        prev |-> IF imp.pc = "none" THEN <<>>
                                 ELSE <<[importPath |-> imp.importPath,
                                         parentType |-> imp.parentType,
                                         raised |-> imp.raised]>>]
    /\ UNCHANGED <<files, dirs, uploads, records, fin, del, sent, crashed, last>>
    /\ UNCHANGED <<dl, scan, uc, can, info, cap, tree, fds, apidocs>>

(***************************************************************************)
(* downloadFile.  It checks that the file is there and returns the         *)
(* function `stream`; each call of `stream` makes a generator, which opens *)
(* the file when its first chunk is asked for.  An open file is read       *)
(* through its handle: removing or replacing the file at the path does not *)
(* change what the handle reads.                                           *)
(***************************************************************************)
MaxRuns == 2

Min(a, b) == IF a < b THEN a ELSE b

\* Lines 214-222.
fullPath(file) == IF IsImported(file) THEN file.path ELSE JoinRoot(file.path)

\* Lines 230-231.
ClampEnd(file, endByte) ==
    IF endByte = NoneEnd \/ endByte > file.size THEN file.size ELSE endByte

\* Lines 224-243 and 263.
DownloadFile(r, offsets, ends) ==
    /\ records[r] # NoFile
    /\ dl.pc = "none"
    /\ scan.pc = "none"
    /\ \E offset \in offsets, endByte \in ends :
         LET file == records[r]
             path == fullPath(file)
             call == [NoStream EXCEPT !.file = file, !.path = path,
                                      !.offset = offset, !.asked = endByte,
                                      !.endByte = ClampEnd(file, endByte)]
         IN  dl' = IF Exists(files, path)
                   THEN [call EXCEPT !.pc = "created"]
                   ELSE [call EXCEPT !.pc = "raised", !.raised = "GirderException"]
    /\ UNCHANGED <<files, dirs, uploads, records, fin, del, sent, crashed, last, scan>>
    /\ Rest

\* A call of stream(): a new generator, which has run nothing yet.  The
\* chunks of the generator before it are kept (history) when it ran to its
\* end.
StreamCall ==
    /\ dl.pc \in {"created", "started", "open", "done", "failed"}
    /\ dl.run < MaxRuns
    /\ dl' = [dl EXCEPT !.pc = "started", !.raised = "none",
                        !.bytesRead = dl.offset, !.pos = 0, !.data = <<>>,
                        !.chunks = <<>>, !.pulls = 0, !.run = @ + 1,
                        !.prev = IF dl.pc = "done"
                                 THEN <<[data |-> dl.data, chunks |-> dl.chunks]>>
                                 ELSE <<>>]
    /\ UNCHANGED <<files, dirs, uploads, records, fin, del, sent, crashed, last, scan>>
    /\ Rest

\* f.read(readLen) at position pos of the open file.
ReadAt(data, pos, readLen) == SubSeq(data, pos + 1, Min(pos + readLen, Len(data)))

\* Line 252.
ReadLenToEnd(g) == g.endByte - g.bytesRead

ReadLenOfBuffer(g) == BUF_SIZE

ReadLen(g) == Min(BUF_SIZE, g.endByte - g.bytesRead)

\* Lines 252-261: one turn of the loop, from the position pos of the file.
StreamTurn(g, data, pos) ==
    LET readLen == ReadLen(g)
        chunk == ReadAt(data, pos, readLen)
    IN  IF readLen <= 0
        THEN [g EXCEPT !.pc = "done", !.data = data, !.pos = pos]
        ELSE IF chunk = <<>>
        THEN [g EXCEPT !.pc = "done", !.data = data, !.pos = pos,
                       !.bytesRead = @ + readLen]
        ELSE [g EXCEPT !.pc = "open", !.data = data, !.pos = pos + Len(chunk),
                       !.bytesRead = @ + readLen,
                       !.chunks = Append(@, chunk)]

\* next() on the generator.  The first one opens the file (line 247), which
\* raises IOError when the file is not there, and seeks to the offset.
StreamNext ==
    /\ dl.pc \in {"started", "open"}
    /\ LET g == [dl EXCEPT !.pulls = @ + 1]
       IN  dl' = IF dl.pc = "open" THEN StreamTurn(g, dl.data, dl.pos)
                 ELSE IF ~Exists(files, dl.path)
                 THEN [g EXCEPT !.pc = "failed", !.raised = "IOError"]
                 ELSE StreamTurn(g, files[dl.path],
                                 IF dl.offset > 0 THEN dl.offset ELSE 0)
    /\ UNCHANGED <<files, dirs, uploads, records, fin, del, sent, crashed, last, scan>>
    /\ Rest

\* The consumer drops the stream function and its generator.
StreamClose ==
    /\ dl.pc # "none"
    /\ dl' = NoStream
    /\ UNCHANGED <<files, dirs, uploads, records, fin, del, sent, crashed, last, scan>>
    /\ Rest

(***************************************************************************)
(* findInvalidFiles.  The file collection of the database holds the        *)
(* documents of this assetstore (`records`) and those of another           *)
(* assetstore, which this adapter never writes.  find(q) returns the       *)
(* documents that carry every value of q, in the order of their ids,       *)
(* together with their count.  The name of a document is written as its    *)
(* id.                                                                     *)
(***************************************************************************)
ThisStore == "this"
OtherStore == "other"

\* The document of the other assetstore: a file stored under that
\* assetstore's root, at the relative path of the content <<0>>.
OtherDoc == FileDoc(DigestOf(<<0>>), 1)

CollectionOf(recs) ==
    [i \in 1..(NumSessions + 1) |->
        IF i <= NumSessions
        THEN [id |-> i, assetstoreId |-> ThisStore, file |-> recs[i]]
        ELSE [id |-> i, assetstoreId |-> OtherStore, file |-> OtherDoc]]

Field(e, k) == IF k = "assetstoreId" THEN e.assetstoreId ELSE e.file[k]

Matches(e, q) == e.file # NoFile /\ \A k \in DOMAIN q : Field(e, k) = q[k]

Find(recs, q) == SelectSeq(CollectionOf(recs), LAMBDA e : Matches(e, q))

\* The filters a scan is called with: none, the imported documents, the
\* documents of the other assetstore.
NoFilters == [k \in {} |-> TRUE]
Filters == {NoFilters, [imported |-> TRUE], [assetstoreId |-> OtherStore]}

\* Lines 363-366: dict({'assetstoreId': ...}, **filters); a key of filters
\* replaces the same key of the first dictionary.
Query(filters) == filters @@ [assetstoreId |-> ThisStore]

\* Lines 368-369: the cursor, and progress.update(total=cursor.count(),
\* current=0).
OpenCursor(g, recs) ==
    LET cursor == Find(recs, Query(g.filters))
    IN  [g EXCEPT !.cursor = cursor, !.total = Len(cursor), !.current = 0,
                  !.log = <<[kind |-> "total", n |-> Len(cursor), name |-> 0]>>]

\* Line 372: progress.update(increment=1, message=file['name']) for the
\* document taken from the cursor.
ProgressSkipped(g, e) == [g EXCEPT !.cursor = Tail(@)]

Progress(g, e) ==
    [g EXCEPT !.cursor = Tail(@), !.current = @ + 1,
              !.log = Append(@, [kind |-> "increment", n |-> 1, name |-> e.id])]

\* Lines 375-386: what is wrong with the file of a document, "none" when
\* nothing is.
ReasonWithDigest(file, path, fs, checkSize) ==
    IF ~Exists(fs, path) THEN "missing"
    ELSE IF checkSize /\ Len(fs[path]) # file.size THEN "size"
    ELSE IF DigestOf(fs[path]) # file.sha512 THEN "size"
    ELSE "none"

Reason(file, path, fs, checkSize) ==
    IF ~Exists(fs, path) THEN "missing"
    ELSE IF checkSize /\ Len(fs[path]) # file.size THEN "size"
    ELSE "none"

\* Lines 371-386: the loop runs on from the head of the cursor until it
\* yields a finding or the cursor ends.
RECURSIVE RunScan(_, _)
RunScan(g, fs) ==
    IF g.cursor = <<>> THEN [g EXCEPT !.pc = "done"]
    ELSE LET e == Head(g.cursor)
             path == fullPath(e.file)
             told == Progress(g, e)
             reason == Reason(e.file, path, fs, g.checkSize)
         IN  IF reason = "none" THEN RunScan(told, fs)
             ELSE [told EXCEPT
                     !.pc = "suspended",
                     !.log = Append(@, [kind |-> "yield", n |-> 0, name |-> e.id]),
                     !.findings = Append(@, [reason |-> reason, id |-> e.id,
                                             file |-> e.file, path |-> path])]

\* The generator a call makes.  `old` is the generator before it, of which
\* nothing is kept but (history) its findings and whether it ran to its end.
NewGeneratorResumed(old, filters, checkSize) ==
    [old EXCEPT !.pc = IF old.pc \in {"suspended", "done"} THEN "suspended"
                       ELSE "created",
                !.filters = filters, !.checkSize = checkSize,
                !.findings = <<>>, !.run = @ + 1,
                !.prev = IF old.pc \in {"suspended", "done"}
                         THEN <<[findings |-> old.findings, done |-> old.pc = "done"]>>
                         ELSE <<>>]

NewGenerator(old, filters, checkSize) ==
    [NoScan EXCEPT !.pc = "created",
                   !.filters = filters, !.checkSize = checkSize,
                   !.run = old.run + 1,
                   !.prev = IF old.pc \in {"suspended", "done"}
                            THEN <<[findings |-> old.findings, done |-> old.pc = "done"]>>
                            ELSE <<>>]

\* A call of findInvalidFiles: a new generator, which has run nothing yet.
\* A generator that was pulled before is called again with the same
\* arguments; its findings are kept (history), with whether it ran to its
\* end.
ScanCall ==
    /\ dl.pc = "none"
    /\ scan.run < MaxRuns
    /\ \E filters \in Filters, checkSize \in BOOLEAN :
         /\ scan.pc \in {"suspended", "done"}
               => (filters = scan.filters /\ checkSize = scan.checkSize)
         /\ scan' = NewGenerator(scan, filters, checkSize)
    /\ UNCHANGED <<files, dirs, uploads, records, fin, del, sent, crashed, last, dl>>
    /\ Rest

\* next() on the generator.  The first one runs lines 363-369: the query,
\* and the total reported to the progress context.
ScanNext ==
    /\ scan.pc \in {"created", "suspended"}
    /\ scan' = IF scan.pc = "suspended" THEN RunScan(scan, files)
               ELSE RunScan(OpenCursor(scan, records), files)
    /\ UNCHANGED <<files, dirs, uploads, records, fin, del, sent, crashed, last, dl>>
    /\ Rest

\* The consumer drops the generator.
ScanClose ==
    /\ scan.pc # "none"
    /\ scan' = NoScan
    /\ UNCHANGED <<files, dirs, uploads, records, fin, del, sent, crashed, last, dl>>
    /\ Rest

(***************************************************************************)
(* initUpload step by step: mkstemp returns the file it created open, and  *)
(* the descriptor stays open until os.close.  A descriptor is written as   *)
(* the session of the call and the path of the file.                       *)
(***************************************************************************)
os_close_never(open, fd) == open

\* os.close(fd) on the set of open descriptors.
os_close(open, fd) == open \ {fd}

\* Line 118.
IuMkstemp(s) ==
    /\ uploads[s] = NoUpload
    /\ fin[s].pc = "idle"
    /\ \A fd \in fds : fd.sid # s
    /\ \E name \in TempNames :
         /\ FreshName(name)
         /\ files' = Put(files, TempPath(name), <<>>)
         /\ fds' = fds \cup {[sid |-> s, path |-> TempPath(name)]}
    /\ UNCHANGED <<dirs, uploads, records, fin, del, sent, crashed, last>>
    /\ UNCHANGED <<dl, scan, uc, can, info, cap, tree, db, imp, apidocs>>

\* Lines 119-122.
IuClose(s) ==
    /\ uploads[s] = NoUpload
    /\ \E fd \in fds, size \in 0..MaxSize :
         /\ fd.sid = s
         /\ fds' = os_close(fds, fd)
         /\ uploads' = [uploads EXCEPT
                ![s] = initUpload([size |-> size, received |-> 0], fd.path)]
    /\ sent' = [sent EXCEPT ![s] = <<>>]
    /\ crashed' = [crashed EXCEPT ![s] = FALSE]
    /\ last' = [NoCall EXCEPT !.op = "initUpload", !.sid = s]
    /\ UNCHANGED <<files, dirs, records, fin, del>>
    /\ UNCHANGED <<dl, scan, uc, can, info, cap, tree, db, imp, apidocs>>

\* Lines 245-261: the generator is inside `with open(path, 'rb')` from its
\* first pull until the loop ends, the open fails or the generator is
\* closed; the file is open exactly then.
StreamHandles(g) == IF g.pc = "open" THEN {[sid |-> 0, path |-> g.path]} ELSE {}

\* Lines 152-161: uploadChunk is inside `with open(path, 'a+b')` from the
\* open to the end of the loop.
ChunkHandles(u, ups) ==
    IF u.handle # "closed"
    THEN {[sid |-> u.sid, path |-> ups[u.sid].tempFile]} ELSE {}

(***************************************************************************)
(* finalizeUpload as a function of the upload document, the filesystem and *)
(* the shard directories, for a caller that keeps the document after the   *)
(* call: os.remove and shutil.move raise when the temp file is not there.  *)
(***************************************************************************)
\* shutil.move raises IOError when there is no file at the source.
MoveRaises(fs, src) == ~Exists(fs, src)

\* Lines 186-212: the filesystem and directories the call leaves, the file
\* document it returns and the exception it raises.
finalizeUpload(upload, fs, ds) ==
    LET hash == FinalHash(upload)
        target == StorePath(hash)
        made == ds \cup {ShardDir(hash)}
        failed == [files |-> fs, dirs |-> made, file |-> NoFile, moved |-> FALSE]
    IN  IF Exists(fs, target)
        THEN IF UnlinkRaises(fs, upload.tempFile)
             THEN failed @@ [raised |-> "OSError"]
             ELSE [files |-> Remove(fs, upload.tempFile), dirs |-> made,
                   file |-> FileDoc(hash, upload.size), moved |-> FALSE,
                   raised |-> "none"]
        ELSE IF MoveRaises(fs, upload.tempFile)
             THEN failed @@ [raised |-> "IOError"]
             ELSE [files |-> Move(fs, upload.tempFile, target), dirs |-> made,
                   file |-> FileDoc(hash, upload.size), moved |-> TRUE,
                   raised |-> "none"]

\* A call of finalizeUpload on a document whose bytes are all received; the
\* caller holds the document until it has saved the file (SaveFile).
FinalizeCall(s) ==
    /\ uploads[s] # NoUpload
    /\ uploads[s].received = uploads[s].size
    /\ fin[s].pc \in {"idle", "returned"}
    /\ LET r == finalizeUpload(uploads[s], files, dirs)
       IN  /\ files' = r.files
           /\ dirs' = r.dirs
           /\ fin' = IF r.raised = "none"
                     THEN [fin EXCEPT ![s] = [pc |-> "returned",
                                              hash |-> FinalHash(uploads[s]),
                                              file |-> r.file, moved |-> r.moved]]
                     ELSE fin
           /\ last' = [NoCall EXCEPT !.op = "finalizeUpload", !.sid = s,
                                     !.raised = r.raised]
    /\ UNCHANGED <<uploads, records, del, sent, crashed>>
    /\ Writes

(***************************************************************************)
(* girder/api/docs.py.  `routes` is a dictionary of dictionaries of lists: *)
(* a function from the resources that have an entry to a function from     *)
(* the route paths that have an entry to the sequence of their operations. *)
(* A dictionary (an info, an operation) is a function from its keys; a     *)
(* string is written as the sequence of its parts, so that the route       *)
(* tokens ":i" and "{i}" are <<":", "i">> and <<"{", "i", "}">>.           *)
(***************************************************************************)
Resources == {"item", "file"}
Tokens == {<<":", "i">>, <<"{", "i", "}">>}
RouteLists == {<<>>} \cup {<<t>> : t \in Tokens}
Methods == {"get", "post"}
Handlers == {[name |-> "find"]}
Infos == {[summary |-> "s"],
          [summary |-> "s", nickname |-> "find", httpMethod |-> "GET"]}

NoRoutes == <<>>
NoDocs == [routes |-> NoRoutes, op |-> "none", raised |-> "none",
           changed |-> FALSE, prev |-> [op |-> "none", changed |-> FALSE]]

\* str.upper on the method names.
upper(method) ==
    CASE method = "get" -> "GET"
      [] method = "post" -> "POST"
      [] OTHER -> method

\* Lines 37-40: a token in :foo form becomes {foo}.
convToken(token) ==
    IF token[1] = ":" THEN <<"{">> \o Tail(token) \o <<"}">> ELSE token

\* '/'.join(parts).
RECURSIVE join(_)
join(parts) ==
    IF Len(parts) = 0 THEN <<>>
    ELSE IF Len(parts) = 1 THEN parts[1]
    ELSE parts[1] \o <<"/">> \o join(Tail(parts))

\* Lines 31-42.
toRoutePath(resource, route) ==
    join(<<<<>>, <<resource>>>> \o [i \in 1..Len(route) |-> convToken(route[i])])

\* Lines 45-53.
toOperation(inf, method, handler) ==
    LET operation == Put(inf, "httpMethod", upper(method))
    IN  IF "nickname" \notin DOMAIN operation
        THEN Put(operation, "nickname", handler.name)
        ELSE operation

\* x in list.
In(x, list) == \E i \in 1..Len(list) : list[i] = x

\* list.remove(x): the list without the first x.
ListRemove(list, x) ==
    LET i == CHOOSE k \in 1..Len(list) :
                 list[k] = x /\ \A j \in 1..(k - 1) : list[j] # x
    IN  SubSeq(list, 1, i - 1) \o SubSeq(list, i + 1, Len(list))

\* routes[resource][path] of the defaultdicts: a missing entry reads as empty.
Lookup(d, k) == IF k \in DOMAIN d THEN d[k] ELSE <<>>

AppendAlways(list, operation) == Append(list, operation)

\* Lines 79-80.
AppendNew(list, operation) ==
    IF ~In(operation, list) THEN Append(list, operation) ELSE list

\* Lines 74-80: the dictionary addRouteDocs leaves.
addRouteDocs(rts, resource, route, method, inf, handler) ==
    LET path == toRoutePath(resource, route)
        operation == toOperation(inf, method, handler)
        ofResource == Lookup(rts, resource)
    IN  Put(rts, resource,
            Put(ofResource, path, AppendNew(Lookup(ofResource, path), operation)))

\* Lines 110-114: the list put back, and the empty entries deleted.
CleanUp(rts, resource, path, list) ==
    IF list # <<>> THEN Put(rts, resource, Put(rts[resource], path, list))
    ELSE LET ofResource == Remove(rts[resource], path)
         IN  IF DOMAIN ofResource = {} THEN Remove(rts, resource)
             ELSE Put(rts, resource, ofResource)

\* Line 108: the test made before list.remove(operation).
Registered(inf, operation, list) == In(inf, list)

\* Lines 98-114: the dictionary removeRouteDocs leaves and the exception it
\* raises; list.remove raises ValueError when the operation is not there.
removeRouteDocs(rts, resource, route, method, inf, handler) ==
    LET path == toRoutePath(resource, route)
        operation == toOperation(inf, method, handler)
    IN  IF resource \notin DOMAIN rts
        THEN [routes |-> rts, raised |-> "none"]
        ELSE IF path \notin DOMAIN rts[resource]
        THEN [routes |-> rts, raised |-> "none"]
        ELSE IF ~Registered(inf, operation, rts[resource][path])
        THEN [routes |-> rts, raised |-> "none"]
        ELSE IF ~In(operation, rts[resource][path])
        THEN [routes |-> rts, raised |-> "ValueError"]
        ELSE [routes |-> CleanUp(rts, resource, path,
                                 ListRemove(rts[resource][path], operation)),
              raised |-> "none"]

Others == UNCHANGED <<files, dirs, uploads, records, fin, del, sent, crashed, last,
                      dl, scan, uc, can, info, cap, tree, db, imp, fds>>

\* A call of each function; of the call and of the one before it, the
\* history keeps which function it was and whether it changed `routes`.
AddRouteDocs ==
    /\ \E resource \in Resources, route \in RouteLists, method \in Methods,
          inf \in Infos, handler \in Handlers :
         LET r == addRouteDocs(apidocs.routes, resource, route, method, inf,
                               handler)
         IN  apidocs' = [routes |-> r, op |-> "addRouteDocs", raised |-> "none",
                         changed |-> r # apidocs.routes,
                         prev |-> [op |-> apidocs.op, changed |-> apidocs.changed]]
    /\ Others

RemoveRouteDocs ==
    /\ \E resource \in Resources, route \in RouteLists, method \in Methods,
          inf \in Infos, handler \in Handlers :
         LET r == removeRouteDocs(apidocs.routes, resource, route, method, inf,
                                  handler)
         IN  apidocs' = [routes |-> r.routes, op |-> "removeRouteDocs",
                         raised |-> r.raised,
                         changed |-> r.routes # apidocs.routes,
                         prev |-> [op |-> apidocs.op, changed |-> apidocs.changed]]
    /\ Others

(***************************************************************************)
(* Specifications.                                                         *)
(***************************************************************************)
Init ==
    /\ files = <<>>
    /\ dirs = {}
    /\ uploads = [s \in Sessions |-> NoUpload]
    /\ records = [s \in Sessions |-> NoFile]
    /\ fin = [s \in Sessions |-> FinIdle]
    /\ del = [s \in Sessions |-> DelIdle]
    /\ sent = [s \in Sessions |-> <<>>]
    /\ crashed = [s \in Sessions |-> FALSE]
    /\ last = NoCall
    /\ dl = NoStream
    /\ scan = NoScan
    /\ uc = NoChunk
    /\ can = [c \in Callers |-> CanIdle]
    /\ info = NoInfo
    /\ cap = NoCap
    /\ tree = NoTree
    /\ db = NoDb
    /\ imp = NoImport
    /\ fds = {}
    /\ apidocs = NoDocs

\* One upload session, one handler call per step.
NextUpload ==
    \/ InitUpload(1)
    \/ UploadChunk(1)
    \/ Crash(1)
    \/ FinalizeUpload(1)

SpecUpload == Init /\ [][NextUpload]_vars

\* Uploads, finalizeUpload and deleteFile of all sessions, interleaved step
\* by step.
NextStore ==
    \E s \in Sessions :
        \/ Upload(s)
        \/ FinCheckDir(s)
        \/ FinMakedirs(s)
        \/ FinCheckFile(s)
        \/ FinRemove(s)
        \/ FinMove(s)
        \/ SaveFile(s)
        \/ DelQuery(s)
        \/ DelIsFile(s)
        \/ DelOsRemove(s)
        \/ RemoveDoc(s)

SpecStore == Init /\ [][NextStore]_vars

\* The same steps with one request served at a time: a session takes a step
\* only while no call of another session is between its first and last step.
FinBusy(s) == fin[s].pc \in {"makedirs", "checkfile", "remove", "move", "returned"}
DelBusy(r) == del[r].pc \in {"isfile", "osremove", "removedoc"}
Alone(s) == \A t \in Sessions \ {s} : ~FinBusy(t) /\ ~DelBusy(t)

NextSeq ==
    \E s \in Sessions :
        \/ Alone(s) /\ Upload(s)
        \/ Alone(s) /\ FinCheckDir(s)
        \/ Alone(s) /\ FinMakedirs(s)
        \/ Alone(s) /\ FinCheckFile(s)
        \/ Alone(s) /\ FinRemove(s)
        \/ Alone(s) /\ FinMove(s)
        \/ Alone(s) /\ SaveFile(s)
        \/ Alone(s) /\ DelQuery(s)
        \/ Alone(s) /\ DelIsFile(s)
        \/ Alone(s) /\ DelOsRemove(s)
        \/ Alone(s) /\ RemoveDoc(s)

SpecSeq == Init /\ [][NextSeq]_vars

\* Streams of the file of one document, stored or imported, while the file
\* is stored, imported, deleted, and written and removed from outside.
Offsets == 0..LongLen
Ends == {NoneEnd} \cup 0..(LongLen + 1)

NextStream ==
    \/ Upload(1)
    \/ FinalizeUpload(1)
    \/ ExternalWrite
    \/ ExternalRemove
    \/ ImportFile(1)
    \/ DeleteFile(1)
    \/ DownloadFile(1, Offsets, Ends)
    \/ StreamCall
    \/ StreamNext
    \/ StreamClose

SpecStream == Init /\ [][NextStream]_vars

\* Every operation on the files and documents of an upload and an import:
\* document 1 is uploaded and stored (or its upload cancelled), document 2
\* is imported; both are scanned, streamed whole and deleted, while files
\* are written, damaged and removed from outside.  One request is served at
\* a time: files and documents change between the readers, not under them.
NoReader == dl.pc = "none" /\ scan.pc = "none"

NextScan ==
    \/ NoReader /\ Upload(1)
    \/ NoReader /\ FinalizeUpload(1)
    \/ NoReader /\ CancelUpload(1)
    \/ NoReader /\ RemoveUpload(1)
    \/ NoReader /\ ImportFile(2)
    \/ NoReader /\ \E r \in 1..2 : DeleteFile(r)
    \/ NoReader /\ ExternalWrite
    \/ NoReader /\ ExternalRemove
    \/ NoReader /\ ExternalRewrite
    \/ ScanCall
    \/ ScanNext
    \/ ScanClose
    \/ \E r \in 1..2 : DownloadFile(r, {0}, {NoneEnd})
    \/ StreamCall
    \/ StreamNext
    \/ StreamClose

SpecScan == Init /\ [][NextScan]_vars

\* Two upload sessions, each used by one caller at a time: while a call of
\* cancelUpload on a session is between its two steps, no other call on the
\* session begins.  The calls on different sessions interleave freely.
\* The chunks sent are empty, of one byte, of BUF_SIZE bytes and one byte
\* longer than the largest declared size.
SomeChunks == {<<>>, <<1>>, <<0, 1>>, [i \in 1..MaxChunk |-> i % 2]}

Free(s) == \A c \in Callers : ~(can[c].sid = s /\ can[c].pc = "unlink")

NextSessions ==
    \E s \in 1..2 :
        \/ Free(s) /\ InitUpload(s)
        \/ Free(s) /\ UploadChunkOf(s, SomeChunks)
        \/ Free(s) /\ FinalizeUpload(s)
        \/ \E c \in Callers : Free(s) /\ CanExists(c, s)
        \/ \E c \in Callers : can[c].sid = s /\ CanUnlink(c)
        \/ RemoveUpload(s)

SpecSessions == Init /\ [][NextSessions]_vars

\* One upload session whose uploadChunk runs step by step, while two callers
\* cancel it; all of them interleave freely.  A crash leaves bytes in the
\* temp file that the document does not count.
NextCancel ==
    \/ InitUpload(1)
    \/ Crash(1)
    \/ UcBegin(1, SomeChunks)
    \/ UcStat
    \/ UcCatchUp
    \/ UcOpen
    \/ UcWrite
    \/ UcCheck
    \/ UcTruncate
    \/ \E c \in Callers : CanExists(c, 1)
    \/ \E c \in Callers : CanUnlink(c)

SpecCancel == Init /\ [][NextCancel]_vars

\* The root of an assetstore: it is validated, an adapter is made for it,
\* its capacity is asked for, and what is at its path changes in between.
NextRoot ==
    \/ RootChange
    \/ ValidateInfo
    \/ AdapterInit
    \/ CapacityInfo

SpecRoot == Init /\ [][NextRoot]_vars

\* A tree is built outside the assetstore while a file is uploaded and
\* stored; then the tree, or a part of it, is imported, twice.
NextImport ==
    \/ imp.pc = "none" /\ Upload(1)
    \/ imp.pc = "none" /\ FinalizeUpload(1)
    \/ TreeMkdir
    \/ TreeWrite
    \/ TreeOrder
    \/ ImportData

SpecImport == Init /\ [][NextImport]_vars

\* One upload session whose document outlives finalizeUpload and
\* cancelUpload, so that further calls reach the adapter with it: one call
\* at a time, crashes included.
NextTerminal ==
    \/ Free(1) /\ InitUpload(1)
    \/ Free(1) /\ UploadChunkOf(1, SomeChunks)
    \/ Free(1) /\ Crash(1)
    \/ Free(1) /\ FinalizeCall(1)
    \/ SaveFile(1)
    \/ \E c \in Callers : Free(1) /\ CanExists(c, 1)
    \/ \E c \in Callers : CanUnlink(c)

SpecTerminal == Init /\ [][NextTerminal]_vars

\* One upload session with every handler that opens a file taken step by
\* step (initUpload, uploadChunk), a crash, cancelUpload and finalizeUpload
\* between the calls of uploadChunk or across them, and the stream of the
\* stored file.
NextHandles ==
    \/ IuMkstemp(1)
    \/ IuClose(1)
    \/ Crash(1)
    \/ UcBegin(1, SomeChunks)
    \/ UcStat
    \/ UcCatchUp
    \/ UcOpen
    \/ UcWrite
    \/ UcCheck
    \/ UcTruncate
    \/ CanExists(1, 1)
    \/ CanUnlink(1)
    \/ UcIdle /\ can[1].pc # "unlink" /\ FinalizeUpload(1)
    \/ DownloadFile(1, 0..1, {NoneEnd})
    \/ StreamCall
    \/ StreamNext
    \/ StreamClose

SpecHandles == Init /\ [][NextHandles]_vars

\* addRouteDocs and removeRouteDocs, one call per step.
NextDocs ==
    \/ AddRouteDocs
    \/ RemoveRouteDocs

SpecDocs == Init /\ [][NextDocs]_vars

(***************************************************************************)
(* Properties of upload sessions, checked under SpecUpload.                *)
(***************************************************************************)
TempOf(s) == uploads[s].tempFile

\* The chunk a successful uploadChunk step of session s accepted.
AcceptedChunk(s) ==
    IF sent'[s] = sent[s] THEN <<>> ELSE sent'[s][Len(sent'[s])]

\* The step is an uploadChunk call of session s.
IsUploadChunk(s) == last'.op = "uploadChunk" /\ last'.sid = s

\* C4 (digest resumability): with no crash, after initUpload and any
\* sequence of accepted chunks, each resumed from the state serialized by the
\* one before, the stored state is the state of one pass over their
\* concatenation, its digest is the digest of the concatenation, and
\* finalizeUpload records that digest as sha512.
C4_DigestResumable ==
    \A s \in Sessions :
        /\ (uploads[s] # NoUpload /\ ~crashed[s]) =>
              /\ restoreHex(uploads[s].sha512state) = update(sha512, Flat(sent[s]))
              /\ FinalHash(uploads[s]) = DigestOf(Flat(sent[s]))
        /\ (records[s] # NoFile /\ ~crashed[s]) =>
              records[s].sha512 = DigestOf(Flat(sent[s]))

C4_Witness ==
    /\ records[1] # NoFile
    /\ ~crashed[1]
    /\ Len(sent[1]) >= 2
    /\ records[1].sha512 = DigestOf(Flat(sent[1]))

\* C5 (crash catch-up): when the temp file holds a prefix P of `received`
\* bytes that the stored state covers, followed by gap bytes G, a successful
\* uploadChunk(C) stores the state of one pass over P ++ G ++ C and leaves
\* the file P ++ G ++ C.
C5_CrashCatchUp ==
    [][\A s \in Sessions :
         (/\ IsUploadChunk(s)
          /\ last'.raised = "none"
          /\ last'.catchup
          /\ restoreHex(uploads[s].sha512state)
                = update(sha512, Take(files[TempOf(s)], uploads[s].received)))
         => /\ restoreHex(uploads'[s].sha512state)
                  = update(sha512, files[TempOf(s)] \o AcceptedChunk(s))
            /\ files'[TempOf(s)] = files[TempOf(s)] \o AcceptedChunk(s)]_vars

C5_Witness ==
    /\ last.op = "uploadChunk"
    /\ last.raised = "none"
    /\ last.catchup
    /\ crashed[1]
    /\ sent[1] # <<>>
    /\ Len(files[TempOf(1)]) > Len(Flat(sent[1]))
    /\ FinalHash(uploads[1]) = DigestOf(files[TempOf(1)])

\* C6 (catch-up restores the session invariant): after a successful
\* uploadChunk that found the temp file longer than `received`, `received`
\* is the size of the temp file, and the bytes that were on disk are still
\* its prefix.
C6_CatchUpRestoresInvariant ==
    [][\A s \in Sessions :
         (IsUploadChunk(s) /\ last'.raised = "none" /\ last'.catchup)
         => /\ uploads'[s].received = Len(files'[TempOf(s)])
            /\ IsPrefix(files[TempOf(s)], files'[TempOf(s)])]_vars

\* C7 as claimed (size exceeded): an uploadChunk whose chunk would take
\* `received` past `size` raises the validation error and leaves the temp
\* file exactly `received` bytes long, its first `received` bytes as they
\* were, and the document (received, digest state) unchanged.
C7_SizeExceeded ==
    [][\A s \in Sessions :
         (IsUploadChunk(s) /\ last'.oversize)
         => /\ last'.raised = "ValidationException"
            /\ Len(files'[TempOf(s)]) = uploads[s].received
            /\ Take(files'[TempOf(s)], uploads[s].received)
                  = Take(files[TempOf(s)], uploads[s].received)
            /\ uploads'[s] = uploads[s]]_vars

\* C7 as amended: such an uploadChunk raises the validation error and leaves
\* the document and the first `received` bytes of the temp file unchanged;
\* when the length shows only while writing, the temp file is left exactly
\* `received` bytes long; when the length is known up front, the filesystem
\* is left as it was.
C7_SizeExceededAmended ==
    [][\A s \in Sessions :
         (IsUploadChunk(s) /\ last'.oversize)
         => /\ last'.raised = "ValidationException"
            /\ uploads'[s] = uploads[s]
            /\ Take(files'[TempOf(s)], uploads[s].received)
                  = Take(files[TempOf(s)], uploads[s].received)
            /\ IF last'.known
               THEN files' = files
               ELSE Len(files'[TempOf(s)]) = uploads[s].received]_vars

\* A refusal on the late path, which truncated the bytes it wrote and the
\* bytes a crash had left.
C7_Witness ==
    /\ last.op = "uploadChunk"
    /\ last.oversize
    /\ last.raised = "ValidationException"
    /\ ~last.known
    /\ last.catchup
    /\ crashed[1]
    /\ uploads[1].received > 0
    /\ Len(files[TempOf(1)]) = uploads[1].received

\* C8 (session invariant): with no crash, after initUpload and any sequence
\* of uploadChunk calls, accepted or refused, `received` is the size of the
\* temp file and the stored state is the state of one pass over its bytes.
C8_SessionInvariant ==
    \A s \in Sessions :
        (uploads[s] # NoUpload /\ ~crashed[s]) =>
            /\ uploads[s].received = Len(files[TempOf(s)])
            /\ restoreHex(uploads[s].sha512state) = update(sha512, files[TempOf(s)])

C8_Witness ==
    /\ uploads[1] # NoUpload
    /\ ~crashed[1]
    /\ last.op = "uploadChunk"
    /\ last.raised = "ValidationException"
    /\ ~last.known
    /\ uploads[1].received > 0
    /\ Len(files[TempOf(1)]) = uploads[1].received

(***************************************************************************)
(* Properties of finalizeUpload and deleteFile, checked under SpecStore    *)
(* (steps interleaved) and SpecSeq (one request at a time).                *)
(***************************************************************************)
\* The place of a digest's file under the root: h[0:2]/h[2:4]/h.
CanonicalPath(h) == <<<<h[1], h[2]>>, <<h[3], h[4]>>, h>>

Returned(s) == fin[s].pc \in {"returned", "saved"}
NoDeleteBegun == \A r \in Sessions : del[r].pc = "idle"

\* C1 (dedup): when two sessions that accepted the same bytes have both
\* returned from finalizeUpload, in any interleaving of their steps and
\* before any deleteFile, both file documents carry the digest of the bytes
\* and the same path, the only stored file with these bytes is the one at
\* the digest's canonical path, and the temp file of neither is left.
C1_Dedup ==
    \A s, t \in Sessions :
        (/\ s # t
         /\ Returned(s)
         /\ Returned(t)
         /\ sent[s] = sent[t]
         /\ NoDeleteBegun)
        => LET content == Flat(sent[s])
               h == DigestOf(content)
           IN  /\ fin[s].file.sha512 = h
               /\ fin[t].file.sha512 = h
               /\ fin[s].file.path = CanonicalPath(h)
               /\ fin[t].file.path = fin[s].file.path
               /\ {p \in DOMAIN files : ~IsTemp(p) /\ files[p] = content}
                     = {CanonicalPath(h)}
               /\ \A p \in DOMAIN files :
                     IsTemp(p) => \E u \in Sessions \ {s, t} :
                                     uploads[u] # NoUpload /\ uploads[u].tempFile = p

\* Both calls found no stored file and both moved their temp file.
C1_Witness ==
    /\ fin[1].pc = "saved"
    /\ fin[2].pc = "saved"
    /\ sent[1] = sent[2]
    /\ fin[1].moved
    /\ fin[2].moved
    /\ NoDeleteBegun
    /\ Cardinality(DOMAIN files) = 1

\* C2 (finalize races are absorbed): no finalizeUpload raises an error, in
\* any interleaving of the steps of the calls.
C2_FinalizeNeverRaises == \A s \in Sessions : fin[s].pc # "raised"

\* C3 (first writer wins): no finalizeUpload moves its temp file onto a path
\* where a stored file exists.
C3_FirstWriterWins ==
    [][\A s \in Sessions :
         (fin[s].pc = "move" /\ fin'[s].pc = "returned")
         => ~Exists(files, CanonicalPath(fin[s].hash))]_vars

\* C9 (reference-safe deletion, one request at a time): when deleteFile of
\* a document and the removal of the document are done, the stored file of
\* its digest is in place if another document of that digest is left and
\* gone if none is; and a stored file disappears only in the os.remove of a
\* deleteFile of a document of that file's digest.
C9_ReferenceSafeDelete ==
    [][/\ \A r \in Sessions :
            (del[r].pc = "removedoc" /\ del'[r].pc = "done" /\ ~records[r].imported)
            => LET others == {q \in Sessions \ {r} :
                                /\ records[q] # NoFile
                                /\ records[q].sha512 = records[r].sha512}
               IN  Exists(files', CanonicalPath(records[r].sha512)) <=> others # {}
       /\ \A p \in DOMAIN files \ DOMAIN files' :
            ~IsTemp(p) => \E r \in Sessions :
                             /\ del[r].pc = "osremove"
                             /\ del'[r].pc = "removedoc"
                             /\ CanonicalPath(records[r].sha512) = p]_vars

\* Two documents shared a digest; the first deleteFile counted two and left
\* the file, the second counted one and removed it.
C9_Witness ==
    \E r, q \in Sessions :
        /\ r # q
        /\ del[r].pc = "done"
        /\ del[r].count = 2
        /\ del[q].pc = "done"
        /\ del[q].count = 1
        /\ fin[r].hash = fin[q].hash
        /\ ~Exists(files, CanonicalPath(fin[r].hash))

\* C10 (no dangling record): every file document that is in the database
\* and not being deleted has its stored file on disk.
C10_NoDanglingRecord ==
    \A r \in Sessions :
        (records[r] # NoFile /\ ~records[r].imported /\ del[r].pc = "idle")
        => Exists(files, records[r].path)

\* C11 as claimed (concurrent deletion of the last two references): when the
\* only two documents of a digest have both been deleted, their deleteFile
\* calls and removals interleaved in any order, the stored file of the digest
\* is gone.  The case is that of two documents that were both saved before
\* the count query of either deletion ran, no other upload of the digest
\* being about.
BothDeleted(r, q) ==
    /\ r # q
    /\ del[r].pc = "done"
    /\ del[q].pc = "done"
    /\ del[r].saved = 2
    /\ del[q].saved = 2
    /\ fin[r].hash = fin[q].hash
    /\ \A u \in Sessions \ {r, q} :
          \/ uploads[u] = NoUpload /\ fin[u].pc = "idle"
          \/ uploads[u] # NoUpload /\ FinalHash(uploads[u]) # fin[r].hash
          \/ uploads[u] = NoUpload /\ fin[u].pc = "saved" /\ fin[u].hash # fin[r].hash

C11_LastTwoDeleted ==
    \A r, q \in Sessions :
        BothDeleted(r, q) => ~Exists(files, CanonicalPath(fin[r].hash))

\* C11 as amended: the stored file is gone unless both count queries ran
\* while both documents were in the database; then both counted two, neither
\* removed the file, and it stays with no document of its digest left.
C11_LastTwoDeletedAmended ==
    \A r, q \in Sessions :
        BothDeleted(r, q)
        => (Exists(files, CanonicalPath(fin[r].hash))
               <=> (del[r].count = 2 /\ del[q].count = 2))

\* The two deletions overlapped and the file is left behind.
C11_Witness ==
    \E r, q \in Sessions :
        /\ BothDeleted(r, q)
        /\ del[r].count = 2
        /\ del[q].count = 2
        /\ records[r] = NoFile
        /\ records[q] = NoFile
        /\ Exists(files, CanonicalPath(fin[r].hash))

\* C13 (content addressing): the path of every file document finalizeUpload
\* produced is hash[0:2]/hash[2:4]/hash of its sha512; every stored file
\* lies at the path of the digest of its bytes, so that no two stored files
\* carry the same digest, however many documents share it.
C13_ContentAddressed ==
    /\ \A s \in Sessions :
          Returned(s) => fin[s].file.path = CanonicalPath(fin[s].file.sha512)
    /\ \A s \in Sessions :
          (records[s] # NoFile /\ ~records[s].imported)
          => records[s].path = CanonicalPath(records[s].sha512)
    /\ \A p \in DOMAIN files :
          IsStored(p) => p = CanonicalPath(DigestOf(files[p]))
    /\ \A p, q \in DOMAIN files :
          (IsStored(p) /\ IsStored(q) /\ p # q)
          => p[3] # q[3] /\ DigestOf(files[p]) # DigestOf(files[q])

\* Two documents share a digest and one stored file carries it.
C13_Witness ==
    /\ records[1] # NoFile
    /\ records[2] # NoFile
    /\ records[1].sha512 = records[2].sha512
    /\ Cardinality({p \in DOMAIN files : IsStored(p) /\ p[3] = records[1].sha512}) = 1
    /\ Exists(files, records[1].path)

(***************************************************************************)
(* Properties of downloadFile, checked under SpecStream.                   *)
(***************************************************************************)
\* The bytes content[a..b) of a file.
Slice(content, a, b) == SubSeq(content, a + 1, b)

\* C14 (streaming correctness): when a stream has run to its end over a file
\* whose length is the size in its document, with offset a and end b (None
\* or past the size taken as the size) such that 0 <= a <= b <= size, the
\* chunks it yielded join to the bytes content[a..b) of the file, b - a of
\* them.
C14_StreamIsSlice ==
    (/\ dl.pc = "done"
     /\ Len(dl.data) = dl.file.size
     /\ dl.endByte = (IF dl.asked = NoneEnd \/ dl.asked > dl.file.size
                      THEN dl.file.size ELSE dl.asked)
     /\ 0 <= dl.offset
     /\ dl.offset <= dl.endByte
     /\ dl.endByte <= dl.file.size)
    => /\ Flat(dl.chunks) = Slice(dl.data, dl.offset, dl.endByte)
       /\ Len(Flat(dl.chunks)) = dl.endByte - dl.offset

\* A range off the start of the longest file, its end past the size, read in
\* more than one chunk.
C14_Witness ==
    /\ dl.pc = "done"
    /\ Len(dl.data) = dl.file.size
    /\ dl.offset = 0
    /\ dl.asked > dl.file.size
    /\ Len(dl.chunks) = 2
    /\ Flat(dl.chunks) = LongContent

\* C15 (finite, chunked, restartable): every chunk is non-empty and at most
\* BUF_SIZE long, and every chunk but the last is BUF_SIZE long; a pull
\* either ends the stream or advances bytesRead by at least one, never past
\* the end, so that a stream makes at most end - offset + 1 pulls and none
\* but the closing one when offset >= end; and a second call of the stream
\* function that reads the same bytes yields the same chunks from the offset
\* again.
C15_StreamChunked ==
    /\ \A i \in 1..Len(dl.chunks) :
          /\ dl.chunks[i] # <<>>
          /\ Len(dl.chunks[i]) <= BUF_SIZE
          /\ i < Len(dl.chunks) => Len(dl.chunks[i]) = BUF_SIZE
    /\ dl.pc \in {"open", "done"} =>
          /\ dl.pulls <= (IF dl.endByte > dl.offset THEN dl.endByte - dl.offset ELSE 0) + 1
          /\ dl.bytesRead <= (IF dl.endByte > dl.offset THEN dl.endByte ELSE dl.offset)
          /\ dl.bytesRead >= dl.offset + Len(dl.chunks)
          /\ dl.offset >= dl.endByte => (dl.pc = "done" /\ dl.chunks = <<>>)
          /\ dl.pc = "open" => dl.pulls = Len(dl.chunks)
          /\ dl.pc = "done" => dl.pulls = Len(dl.chunks) + 1
    /\ (dl.pc = "done" /\ dl.prev # <<>> /\ dl.prev[1].data = dl.data)
          => dl.chunks = dl.prev[1].chunks

\* A second run over the unchanged longest file gave the two chunks of the
\* first again.
C15_Witness ==
    /\ dl.pc = "done"
    /\ dl.run = 2
    /\ dl.prev # <<>>
    /\ dl.prev[1].data = dl.data
    /\ Len(dl.chunks) = 2
    /\ Len(dl.chunks[2]) < BUF_SIZE
    /\ dl.chunks = dl.prev[1].chunks

\* C16 (missing file while streaming): a read of a file that is not there
\* fails with the GirderException of downloadFile, whether the file is
\* missed by downloadFile or by the generator when it opens the file; no
\* other error is raised.
C16_MissingIsNotFound ==
    /\ dl.raised \in {"none", "GirderException"}
    /\ dl.pc = "failed" => dl.raised = "GirderException"

(***************************************************************************)
(* Properties of findInvalidFiles and of imported files, checked under     *)
(* SpecScan.                                                               *)
(***************************************************************************)
\* The documents of this assetstore that carry every value of the filters.
InFilter(r, filters) ==
    /\ records[r] # NoFile
    /\ \A k \in DOMAIN filters :
          Field([id |-> r, assetstoreId |-> ThisStore, file |-> records[r]], k)
             = filters[k]

\* What a scan has to find: the documents in the filter without a file and,
\* when sizes are checked, those whose file has another length.
Expected(filters, checkSize) ==
    {<<r, "missing">> : r \in {q \in Sessions :
          InFilter(q, filters) /\ ~Exists(files, fullPath(records[q]))}}
    \cup
    {<<r, "size">> : r \in {q \in Sessions :
          /\ checkSize
          /\ InFilter(q, filters)
          /\ Exists(files, fullPath(records[q]))
          /\ Len(files[fullPath(records[q])]) # records[q].size}}

Verdicts(findings) == [i \in 1..Len(findings) |-> <<findings[i].id, findings[i].reason>>]
Range(f) == {f[i] : i \in DOMAIN f}

\* C17 (scan completeness and soundness): a scan run to its end has yielded
\* one finding for each document of this assetstore in the filter whose file
\* is missing, one for each whose file has another length when sizes are
\* checked, and nothing else: nothing for a document of another assetstore
\* or outside the filter, and no size finding when sizes are not checked.
C17_ScanExact ==
    scan.pc = "done"
    => /\ Range(Verdicts(scan.findings)) = Expected(scan.filters, scan.checkSize)
       /\ Len(scan.findings) = Cardinality(Expected(scan.filters, scan.checkSize))
       /\ \A i \in 1..Len(scan.findings) :
             /\ scan.findings[i].id \in Sessions
             /\ ~scan.checkSize => scan.findings[i].reason # "size"

\* The names in the increments of a progress log, in order.
RECURSIVE Increments(_)
Increments(log) ==
    IF log = <<>> THEN <<>>
    ELSE IF Head(log).kind = "increment"
         THEN <<Head(log).name>> \o Increments(Tail(log))
         ELSE Increments(Tail(log))

Ids(cursor) == [i \in 1..Len(cursor) |-> cursor[i].id]

\* C18 (scan progress): the first report of a scan is the total, the number
\* of documents of the query, with current 0; then comes one increment of 1
\* with the document's name for each document processed, in the order of
\* the cursor, the increment of a document right before its finding; when
\* the scan has run to its end the increments add up to the total.
C18_ScanProgress ==
    scan.pc \in {"suspended", "done"}
    => LET matching == Ids(Find(records, Query(scan.filters)))
           told == Increments(scan.log)
       IN  /\ scan.log[1] = [kind |-> "total", n |-> Len(matching), name |-> 0]
           /\ scan.total = Len(matching)
           /\ \A i \in 2..Len(scan.log) : scan.log[i].kind # "total"
           /\ \A i \in 1..Len(scan.log) :
                 scan.log[i].kind = "increment" => scan.log[i].n = 1
           /\ told = SubSeq(matching, 1, Len(told))
           /\ scan.current = Len(told)
           /\ \A i \in 1..Len(scan.log) :
                 scan.log[i].kind = "yield"
                 => /\ scan.log[i - 1].kind = "increment"
                    /\ scan.log[i - 1].name = scan.log[i].name
           /\ scan.pc = "suspended"
                 => scan.findings[Len(scan.findings)].id = told[Len(told)]
           /\ scan.pc = "done" => (told = matching /\ scan.current = scan.total)

\* A scan over two documents ran to its end: the first was fine, the second
\* was reported.
C18_Witness ==
    /\ scan.pc = "done"
    /\ scan.total = 2
    /\ Len(Increments(scan.log)) = 2
    /\ Len(scan.findings) = 1
    /\ scan.findings[1].id = 2

\* C19 (scan restartable and read-only): a step of a scan changes no file and
\* no document; a generator made after another, with the same arguments and
\* with files and documents as they were, starts from the first document of
\* the query again, and when it has run to its end it has yielded what the
\* one before yielded, in the same order, followed by what that one had not
\* come to.
C19_ScanRestartable ==
    /\ [][scan' # scan => UNCHANGED <<files, dirs, uploads, records>>]_vars
    /\ [](scan.pc = "created" => (scan.cursor = <<>> /\ scan.log = <<>>))
    /\ []((scan.pc \in {"suspended", "done"} /\ scan.prev # <<>>)
            => /\ IsPrefix(Increments(scan.log),
                           Ids(Find(records, Query(scan.filters))))
               /\ scan.pc = "done" =>
                     /\ IsPrefix(scan.prev[1].findings, scan.findings)
                     /\ scan.prev[1].done => scan.findings = scan.prev[1].findings)

\* A scan was left after its first of two findings; the next one ran to its
\* end and gave both.
C19_Witness ==
    /\ scan.pc = "done"
    /\ scan.run = 2
    /\ scan.prev # <<>>
    /\ ~scan.prev[1].done
    /\ Len(scan.prev[1].findings) = 1
    /\ Len(scan.findings) = 2
    /\ scan.findings[1] = scan.prev[1].findings[1]

\* The files with every byte set to 0, and the documents without their
\* digest: a state that agrees with this one on paths, sizes and lengths.
BlankFiles == [p \in DOMAIN files |-> [i \in 1..Len(files[p]) |-> 0]]
NoDigests ==
    [r \in Sessions |-> IF records[r] = NoFile THEN NoFile
                        ELSE [records[r] EXCEPT !.sha512 = NoHash]]

RECURSIVE FullScan(_, _)
FullScan(g, fs) ==
    LET h == RunScan(g, fs)
    IN  IF h.pc = "done" THEN h ELSE FullScan(h, fs)

\* C20 (scan ignores digests): a scan run to its end has yielded, document
\* by document, the findings of the same scan over the state where every
\* digest is dropped and every byte is 0; and it has reported no document
\* whose file has the length of its size, whatever the bytes.
C20_ScanIgnoresDigests ==
    scan.pc = "done"
    => /\ Verdicts(scan.findings)
            = Verdicts(FullScan(OpenCursor([scan EXCEPT !.findings = <<>>], NoDigests),
                                BlankFiles).findings)
       /\ \A i \in 1..Len(scan.findings) :
             Exists(files, scan.findings[i].path)
             => Len(files[scan.findings[i].path]) # scan.findings[i].file.size

\* The bytes of a stored file were changed, its length was not, and a scan
\* that checks sizes ran to its end without reporting it.
C20_Witness ==
    /\ scan.pc = "done"
    /\ scan.checkSize
    /\ scan.filters = NoFilters
    /\ records[1] # NoFile
    /\ Exists(files, records[1].path)
    /\ Len(files[records[1].path]) = records[1].size
    /\ DigestOf(files[records[1].path]) # records[1].sha512
    /\ \A i \in 1..Len(scan.findings) : scan.findings[i].id # 1

\* C12 (imported bytes are never owned by the store): the path resolved for
\* an imported document is its absolute path outside the assetstore; no step
\* but a write or removal from outside changes or removes the file at that
\* path; and a deletion of an imported document changes no file.
C12_ImportedNeverOwned ==
    [][\A r \in Sessions :
         (records[r] # NoFile /\ records[r].imported)
         => /\ fullPath(records[r]) = records[r].path
            /\ IsExternal(records[r].path)
            /\ (Exists(files, records[r].path) /\ ~ExternalWrite /\ ~ExternalRemove)
               => /\ Exists(files', records[r].path)
                  /\ files'[records[r].path] = files[records[r].path]
            /\ records'[r] = NoFile => files' = files]_vars

\* An imported document was deleted and its file is still there.
C12_Witness ==
    /\ fin[2].pc = "imported"
    /\ del[2].pc = "done"
    /\ records[2] = NoFile
    /\ \E k \in ExtNames : Exists(files, ExternalPath(k))

(***************************************************************************)
(* Properties of cancelUpload and of the temp files of several sessions,   *)
(* checked under SpecSessions and SpecCancel.                              *)
(***************************************************************************)
\* A call of cancelUpload on session s has returned.
Cancelled(s) == \E c \in Callers : can[c].sid = s /\ can[c].pc = "done"

\* The step is a step of cancelUpload on session s.
CancelStep(s) == \E c \in Callers : CanExists(c, s) \/ (can[c].sid = s /\ CanUnlink(c))

\* Every file but the one at `path` is there after the step as before it,
\* and no file is new.
OnlyTouches(path) ==
    /\ DOMAIN files' \subseteq DOMAIN files
    /\ \A p \in DOMAIN files \ {path} : p \in DOMAIN files' /\ files'[p] = files[p]

\* C27 (cancel is idempotent): a call of cancelUpload never raises; it
\* leaves no temp file for its session and touches no other file and no
\* document; and a call on a session already cancelled returns at once and
\* changes nothing.
C27_CancelIdempotent ==
    /\ [](\A c \in Callers : can[c].raised = "none")
    /\ [](\A s \in Sessions :
            (uploads[s] # NoUpload /\ Cancelled(s)) => ~Exists(files, TempOf(s)))
    /\ [][\A s \in Sessions :
            CancelStep(s)
            => /\ OnlyTouches(TempOf(s))
               /\ UNCHANGED <<dirs, uploads, records>>
               /\ Cancelled(s) =>
                     /\ UNCHANGED files
                     /\ \A c \in Callers :
                           can'[c].sid = s => can'[c].pc # "unlink"]_vars

\* Both callers cancelled session 1 one after the other, while session 2
\* was receiving into its temp file.
C27_Witness ==
    /\ \A c \in Callers : can[c].sid = 1 /\ can[c].pc = "done"
    /\ uploads[1] # NoUpload
    /\ ~Exists(files, TempOf(1))
    /\ uploads[2] # NoUpload
    /\ Exists(files, TempOf(2))
    /\ files[TempOf(2)] # <<>>

\* No call on session 1 is between two of its steps.
Quiet == UcIdle /\ \A c \in Callers : can[c].pc \in {"idle", "done"}

\* C28 (cancel is safe at any point of Receiving): whatever the steps of an
\* uploadChunk of the session and of another cancelUpload that come between
\* its own, a call of cancelUpload does not raise; and when every call has
\* returned, the temp file of a session that was cancelled does not exist.
C28_CancelSafe ==
    /\ \A c \in Callers : can[c].raised = "none"
    /\ (Quiet /\ uploads[1] # NoUpload /\ Cancelled(1)) => ~Exists(files, TempOf(1))

\* The sessions that are Initiated or Receiving.
Active == {s \in Sessions : uploads[s] # NoUpload /\ ~Cancelled(s)}

\* The temp file of a session, when there is one.
ScratchOf(fs, s) == IF Exists(fs, TempOf(s)) THEN <<fs[TempOf(s)]>> ELSE <<>>

\* The step is a call, or a step of a call, on session s.
CallOn(s) ==
    \/ InitUpload(s)
    \/ UploadChunkOf(s, SomeChunks)
    \/ CancelStep(s)

\* C29 (cross-session independence): two sessions that are Initiated or
\* Receiving have different temp files, and no initUpload, uploadChunk
\* (accepted, or failing and truncating) or cancelUpload on one session
\* changes the temp file, the bytes received or the stored state of the
\* checksum of another.
C29_SessionsIndependent ==
    /\ [](\A s, t \in Active : s # t => TempOf(s) # TempOf(t))
    /\ [][\A s, t \in Sessions :
            (s # t /\ CallOn(s) /\ uploads[t] # NoUpload)
            => /\ uploads'[t] = uploads[t]
               /\ ScratchOf(files', t) = ScratchOf(files, t)]_vars

\* Session 1 was sent too many bytes and its temp file was cut back, while
\* session 2 had bytes in its own.
C29_Witness ==
    /\ last.op = "uploadChunk" /\ last.sid = 1
    /\ last.raised = "ValidationException" /\ ~last.known
    /\ Active = {1, 2}
    /\ uploads[2].received > 0
    /\ files[TempOf(2)] = Flat(sent[2])

\* C30 (temp files do not leak): the files under temp are the temp files of
\* the sessions that are Initiated or Receiving, one for each; so a
\* finalizeUpload, whether it removed or moved the file, and a cancelUpload
\* leave none for their session.
C30_NoLeak ==
    /\ {p \in DOMAIN files : IsTemp(p)} = {TempOf(s) : s \in Active}
    /\ Cardinality({p \in DOMAIN files : IsTemp(p)}) = Cardinality(Active)

\* Both sessions were finalized with the same content, the first by a move
\* and the second by removing its temp file; no temp file is left.
C30_Witness ==
    /\ fin[1].pc = "saved" /\ fin[1].moved
    /\ fin[2].pc = "saved" /\ ~fin[2].moved
    /\ fin[1].hash = fin[2].hash
    /\ Active = {}
    /\ Exists(files, StorePath(fin[1].hash))

(***************************************************************************)
(* Properties of validateInfo and capacityInfo, checked under SpecRoot.    *)
(***************************************************************************)
\* C25 (root validation): validateInfo returns without an exception only if
\* the root, after expansion of the home directory, is absolute and is then
\* a directory the process may write; a root that is not absolute, a root
\* that is not there and cannot be made, and a root that is not writable
\* each raise ValidationException; and the first write under a root that
\* passed, the making of the temp directory, succeeds.
C25_RootValidated ==
    info.pc \in {"validated", "adapter"}
    => /\ info.root = expanduser(info.given)
       /\ info.raised \in {"none", "ValidationException"}
       /\ info.raised = "none"
             => /\ isabs(info.root)
                /\ info.fs.kind = "dir"
                /\ info.fs.writable
       /\ ~isabs(expanduser(info.given)) => info.raised = "ValidationException"
       /\ (info.before.kind = "absent" /\ ~info.before.parent)
             => info.raised = "ValidationException"
       /\ info.before.kind = "file" => info.raised = "ValidationException"
       /\ (info.before.kind = "dir" /\ ~info.before.writable)
             => info.raised = "ValidationException"
       /\ (info.before.kind = "absent" /\ ~info.before.umask)
             => info.raised = "ValidationException"
       /\ info.pc = "adapter" => info.temp = "dir"

\* A root under the home directory that was not there passed: it was made,
\* and the adapter made its temp directory.
C25_Witness ==
    /\ info.pc = "adapter"
    /\ info.given = <<"~", "store">>
    /\ info.root = Home \o <<"store">>
    /\ info.before.kind = "absent"
    /\ info.fs.kind = "dir"
    /\ info.temp = "dir"

\* C26 (capacity is best-effort): capacityInfo returns the free and total
\* bytes the query gave when it succeeded, and free and total both None
\* when the query raised any OSError; it never raises.
C26_CapacityBestEffort ==
    cap.pc = "returned"
    => /\ cap.raised = "none"
       /\ cap.query.raised = "none"
             => (cap.free = cap.query.free /\ cap.total = cap.query.total
                 /\ cap.free # NoneBytes /\ cap.total # NoneBytes)
       /\ cap.query.raised # "none"
             => (cap.free = NoneBytes /\ cap.total = NoneBytes)

\* The root was gone when the capacity was asked for: the query raised
\* FileNotFoundError and the answer is None, None.
C26_Witness ==
    /\ cap.pc = "returned"
    /\ info.fs.kind = "absent"
    /\ cap.query.raised = "FileNotFoundError"
    /\ cap.free = NoneBytes
    /\ cap.total = NoneBytes
    /\ cap.raised = "none"

(***************************************************************************)
(* Properties of importData, checked under SpecImport.                     *)
(***************************************************************************)
\* The entries of directory `dir` are in the database under the parent: one
\* folder of its name for each subdirectory, with the entries of the
\* subdirectory under it, and for each file one item of its name holding
\* one file document, imported, with the absolute path, the size and the
\* time of modification of the file, and no sha512.
RECURSIVE Mirrored(_, _, _)
Mirrored(dir, parentId, parentType) ==
    \A name \in Range(TreeNames) :
        LET path == dir \o <<name>>
            folders == {f \in db.folders : /\ f.parentId = parentId
                                           /\ f.parentType = parentType
                                           /\ f.name = name}
            items == {i \in db.items : i.folderId = parentId /\ i.name = name}
        IN  /\ path \in tree.dirs
               => /\ Cardinality(folders) = 1
                  /\ Mirrored(path, (CHOOSE f \in folders : TRUE).id, "folder")
            /\ path \in DOMAIN files
               => /\ Cardinality(items) = 1
                  /\ LET held == {f \in db.files :
                                    f.itemId = (CHOOSE i \in items : TRUE).id}
                     IN  /\ Cardinality(held) = 1
                         /\ \A f \in held :
                               /\ f.name = name
                               /\ f.imported
                               /\ f.path = path
                               /\ f.size = Len(files[path])
                               /\ f.mtime = tree.mtime[path]
                               /\ f.sha512 = NoHash

\* The directories and the files below a directory.
DirsBelow(dir) ==
    {d \in tree.dirs : Len(d) > Len(dir) /\ SubSeq(d, 1, Len(dir)) = dir}
FilesBelow(dir) ==
    {f \in DOMAIN files \cap TreeFiles : SubSeq(f, 1, Len(dir)) = dir}

\* C21 (import fidelity): when importData under a folder has returned, each
\* subdirectory of the tree has one folder of its name, nested as on disk,
\* each file one item and one file document with imported = true, the
\* file's absolute path, and its size and mtime; and the call made no more
\* folders than there are subdirectories and no more items and file
\* documents than there are files.
C21_ImportFidelity ==
    (imp.pc = "returned" /\ imp.parentType = "folder")
    => LET top == abspath(imp.importPath)
       IN  /\ Mirrored(top, imp.parent.id, "folder")
           /\ imp.before.folders \subseteq db.folders
           /\ imp.before.items \subseteq db.items
           /\ Cardinality(db.folders \ imp.before.folders)
                 <= Cardinality(DirsBelow(top))
           /\ Cardinality(db.items \ imp.before.items)
                 <= Cardinality(FilesBelow(top))
           /\ Cardinality(db.files) - Cardinality(imp.before.files)
                 <= Cardinality(FilesBelow(top))

\* The tree a/b.txt, a/c/ was imported under a folder, by a path relative
\* to the working directory: a folder a, under it a folder c and an item
\* b.txt with its file document.
C21_Witness ==
    /\ imp.pc = "returned" /\ imp.run = 1
    /\ imp.parentType = "folder" /\ imp.importPath = <<"data">>
    /\ tree.dirs = TreeDirs
    /\ DOMAIN files \cap TreeFiles = {DataDir \o <<"a", "b.txt">>}
    /\ {f.name : f \in db.folders} = {"a", "c"}
    /\ \E f \in db.folders, g \in db.folders :
          /\ f.name = "a" /\ f.parentId = 0
          /\ g.name = "c" /\ g.parentId = f.id
    /\ \E f \in db.files :
          /\ db.files = {f}
          /\ f.name = "b.txt" /\ f.imported
          /\ f.path = DataDir \o <<"a", "b.txt">>

\* C22 (import idempotence): a call of importData that follows one with the
\* same path and parent, the tree being as it was, leaves the folders, items
\* and file documents as the first call left them, and ends as it ended.
C22_ImportIdempotent ==
    (/\ imp.run >= 2
     /\ abspath(imp.prev[1].importPath) = abspath(imp.importPath)
     /\ imp.prev[1].parentType = imp.parentType)
    => /\ db = imp.before
       /\ imp.raised = imp.prev[1].raised

\* The whole tree, with both files, was imported twice under a folder.
C22_Witness ==
    /\ imp.run = 2 /\ imp.pc = "returned"
    /\ imp.importPath = DataDir /\ imp.prev[1].importPath = DataDir
    /\ imp.parentType = "folder" /\ imp.prev[1].parentType = "folder"
    /\ imp.prev[1].raised = "none"
    /\ Cardinality(db.folders) = 2
    /\ Cardinality(db.items) = 2
    /\ Cardinality(db.files) = 2

\* The files directly in a directory.
FilesIn(dir) == {f \in DOMAIN files \cap TreeFiles : dirname(f) = dir}

\* C23 (import into a parent that is not a folder): importData raises the
\* invalid-parent ValidationException exactly when its path is a directory
\* with a file directly in it and the type of the parent is not folder; when
\* there is no such file the subdirectories become folders under the parent
\* and the files below them are imported; and a path that is not a
\* directory raises ValidationException with nothing made.
C23_InvalidParent ==
    imp.pc # "none"
    => LET top == abspath(imp.importPath)
       IN  /\ imp.raised = InvalidParent
                <=> /\ isdirIn(tree, imp.importPath)
                    /\ imp.parentType # "folder"
                    /\ FilesIn(top) # {}
           /\ imp.raised = NoSuchDirectory <=> ~isdirIn(tree, imp.importPath)
           /\ imp.raised = NoSuchDirectory => (db = imp.before /\ imp.log = <<>>)
           /\ (imp.raised = "none" /\ imp.parentType # "folder")
                => Mirrored(top, imp.parent.id, imp.parentType)
           /\ (imp.raised = InvalidParent /\ ~tree.reversed /\ top = DataDir)
                => Mirrored(top \o <<"a">>,
                            (CHOOSE f \in db.folders :
                                f.parentId = imp.parent.id
                                /\ f.parentType = imp.parentType
                                /\ f.name = "a").id,
                            "folder")

\* Under a collection, the directory a was imported with its file b.txt, and
\* then the file t.txt next to it was refused.
C23_Witness ==
    /\ imp.pc = "raised" /\ imp.run = 1
    /\ imp.raised = InvalidParent
    /\ imp.parentType = "collection"
    /\ imp.log = <<"a", "b.txt", "t.txt">>
    /\ \E f \in db.files : f.path = DataDir \o <<"a", "b.txt">> /\ f.imported
    /\ \A f \in db.files : f.name # "t.txt"

\* C24 (import touches no bytes): a call of importData leaves every file and
\* every directory, in the tree and under the root of the assetstore, as it
\* was, and the file documents in the database carry no sha512.
C24_ImportTouchesNoBytes ==
    [][imp'.run # imp.run
       => /\ UNCHANGED <<files, dirs, tree, uploads, records>>
          /\ \A f \in db'.files : f.sha512 = NoHash]_vars

\* Both files of the tree were imported while a stored file lay under the
\* root.
C24_Witness ==
    /\ imp.pc = "returned"
    /\ Cardinality(db.files) = 2
    /\ \E p \in DOMAIN files : IsStored(p)
    /\ \A f \in db.files : Exists(files, f.path)
PublishesAfterChunk(s) ==
    /\ last'.op = "finalizeUpload"
    /\ last'.sid = s
    /\ last.op = "uploadChunk"
    /\ last.raised = "none"
    /\ fin'[s].moved

\* C33: every file that finalizeUpload publishes lies at the path of the
\* digest of its own bytes: the sha512 recorded for it, of which the path
\* is made, is the digest of the bytes of the file, whatever uploadChunk
\* calls, refusals and crashes came before the last uploadChunk.
C33_ContentAddressIntegrity ==
    [][\A s \in Sessions :
         PublishesAfterChunk(s)
         => /\ Exists(files', StorePath(records'[s].sha512))
            /\ DigestOf(files'[StorePath(records'[s].sha512)])
                  = records'[s].sha512]_vars

\* C34: no uploadChunk returns without an exception leaving more than the
\* declared size in the temp file, and the file finalizeUpload moves into
\* place has exactly the declared size of its session.
C34_PublishedSize ==
    [][\A s \in Sessions :
         /\ (IsUploadChunk(s) /\ last'.raised = "none")
               => Len(files'[TempOf(s)]) <= uploads'[s].size
         /\ PublishesAfterChunk(s)
               => Len(files'[StorePath(records'[s].sha512)]) = records'[s].size]_vars

(***************************************************************************)
(* Claims on a session whose document outlives its calls, under            *)
(* SpecTerminal.                                                           *)
(***************************************************************************)
\* The step is a call of uploadChunk or finalizeUpload on session s that
\* leaves the document with its caller.
ChunkOrFinalize(s) ==
    /\ last'.op \in {"uploadChunk", "finalizeUpload"}
    /\ last'.sid = s
    /\ can' = can
    /\ uploads'[s] # NoUpload

\* C35: `received` lies between 0 and the declared size in every state of a
\* session; an uploadChunk that returns without an exception adds to it the
\* number of bytes of its chunk, which is the number of bytes the temp file
\* grew by; and a failing uploadChunk, a crash, cancelUpload and
\* finalizeUpload leave it as it is, so it never decreases.
C35_ReceivedMonotone ==
    /\ [](\A s \in Sessions :
            uploads[s] # NoUpload
            => 0 <= uploads[s].received /\ uploads[s].received <= uploads[s].size)
    /\ [][\A s \in Sessions :
            (uploads[s] # NoUpload /\ uploads'[s] # NoUpload)
            => /\ uploads'[s].size = uploads[s].size
               /\ uploads'[s].received >= uploads[s].received
               /\ uploads'[s].received - uploads[s].received
                     = Len(Flat(sent'[s])) - Len(Flat(sent[s]))
               /\ IF ChunkOrFinalize(s) /\ last'.op = "uploadChunk"
                        /\ last'.raised = "none"
                  THEN Len(files'[TempOf(s)]) - Len(files[TempOf(s)])
                          = uploads'[s].received - uploads[s].received
                  ELSE uploads'[s].received = uploads[s].received]_vars

\* Two chunks were accepted after a crash, the session was cancelled, and a
\* finalizeUpload on it failed: `received` is the bytes of the two chunks.
C35_Witness ==
    /\ uploads[1] # NoUpload
    /\ crashed[1]
    /\ Len(sent[1]) = 2
    /\ uploads[1].received = 2
    /\ Cancelled(1)
    /\ last.op = "finalizeUpload"
    /\ last.raised # "none"

\* The session was finalized or cancelled and its document is still held.
Terminal(s) ==
    /\ uploads[s] # NoUpload
    /\ fin[s].pc = "returned" \/ Cancelled(s)

\* C36: on a session that finalizeUpload or cancelUpload has ended, every
\* further uploadChunk and finalizeUpload raises, and the failed call
\* creates, removes and rewrites no file, temp or stored, and changes no
\* field of the upload document and no file document.
C36_TerminalStates ==
    [][\A s \in Sessions :
         (Terminal(s) /\ ChunkOrFinalize(s))
         => /\ last'.raised # "none"
            /\ UNCHANGED <<files, uploads, records, fin, sent>>]_vars

\* A second finalizeUpload on a session whose temp file the first moved
\* into place raised OSError.
C36_Witness ==
    /\ uploads[1] # NoUpload
    /\ fin[1].pc = "returned"
    /\ fin[1].moved
    /\ Exists(files, StorePath(fin[1].hash))
    /\ last.op = "finalizeUpload"
    /\ last.sid = 1
    /\ last.raised = "OSError"

(***************************************************************************)
(* Claims on open files, under SpecHandles.                                *)
(***************************************************************************)
\* The files that the handlers of uploads hold open.
UploadHandles == fds \cup ChunkHandles(uc, uploads)

\* initUpload of session s is between mkstemp and os.close.
InInitUpload(s) == uploads[s] = NoUpload /\ \E fd \in fds : fd.sid = s

\* C37: when initUpload has returned, and when uploadChunk has returned or
\* raised (accepted chunk, size exceeded and truncated, catch-up, missing
\* file), no file that the call opened is open; uploadChunk holds its file
\* only between the open at line 152 and the end of the loop;
\* finalizeUpload and cancelUpload run only with no file open and open
\* none; a generator of the stream holds one file at most, only between a
\* pull that yielded a chunk and the next, yields one chunk of at most
\* BUF_SIZE bytes per pull, and holds no file once it is exhausted, has
\* failed or was closed.
C37_HandlesScoped ==
    /\ [](\A s \in Sessions : uploads[s] # NoUpload => \A fd \in fds : fd.sid # s)
    /\ [](uc.pc # "write" => ChunkHandles(uc, uploads) = {})
    /\ []((UcIdle /\ \A s \in Sessions : ~InInitUpload(s)) => UploadHandles = {})
    /\ [](Cardinality(StreamHandles(dl)) <= 1)
    /\ [](dl.pc \in {"none", "created", "started", "done", "failed", "raised"}
             => StreamHandles(dl) = {})
    /\ [][/\ (last'.op = "finalizeUpload" /\ last' # last)
                => UploadHandles = {} /\ UploadHandles' = {}
          /\ (can' # can) => UploadHandles' = UploadHandles
          /\ (dl'.run = dl.run /\ dl'.pulls = dl.pulls + 1)
                => /\ Len(dl'.chunks) <= Len(dl.chunks) + 1
                   /\ \A i \in 1..Len(dl'.chunks) : Len(dl'.chunks[i]) <= BUF_SIZE
                   /\ dl'.pc = "open" <=> Len(dl'.chunks) = Len(dl.chunks) + 1]_vars

\* The last uploadChunk of a session ran the catch-up, wrote past the
\* declared size and truncated; the file was then published and streamed
\* to its end: nothing is open.
C37_Witness ==
    /\ crashed[1]
    /\ uc.pc = "done"
    /\ uc.raised = "ValidationException"
    /\ uc.size > 0
    /\ records[1] # NoFile
    /\ dl.pc = "done"
    /\ Len(dl.chunks) = 1
    /\ UploadHandles \cup StreamHandles(dl) = {}

(***************************************************************************)
(* Claims on girder/api/docs.py, under SpecDocs.                           *)
(***************************************************************************)
\* The arguments of a call of addRouteDocs or removeRouteDocs.
Calls ==
    [resource : Resources, route : RouteLists, method : Methods, info : Infos,
     handler : Handlers]

Added(rts, a) ==
    addRouteDocs(rts, a.resource, a.route, a.method, a.info, a.handler)

Removed(rts, a) ==
    removeRouteDocs(rts, a.resource, a.route, a.method, a.info, a.handler)

\* C32: in every state of `routes`, for every resource, route, method, info
\* and handler with which addRouteDocs registers an operation,
\* removeRouteDocs called next with the same arguments returns without an
\* exception and leaves `routes` as it was before the add: the operation is
\* removed, and with it the route path and the resource it left empty.
C32_RoundTrip ==
    \A a \in Calls :
        LET added == Added(apidocs.routes, a)
        IN  added # apidocs.routes
                => Removed(added, a) = [routes |-> apidocs.routes, raised |-> "none"]

NoDuplicates(list) ==
    \A i, j \in 1..Len(list) : list[i] = list[j] => i = j

\* C38: in every state reached by calls of addRouteDocs and removeRouteDocs,
\* no route path lists an operation twice, no route path has an empty list
\* of operations and no resource is left without route paths; and a second
\* addRouteDocs with the arguments of a first changes nothing.
C38_NoDuplicatesNoEmpties ==
    /\ \A r \in DOMAIN apidocs.routes :
          /\ DOMAIN apidocs.routes[r] # {}
          /\ \A p \in DOMAIN apidocs.routes[r] :
                /\ apidocs.routes[r][p] # <<>>
                /\ NoDuplicates(apidocs.routes[r][p])
    /\ \A a \in Calls :
          LET once == Added(apidocs.routes, a)
          IN  /\ Added(once, a) = once
              /\ Len(once[a.resource][toRoutePath(a.resource, a.route)])
                    <= Len(Lookup(Lookup(apidocs.routes, a.resource),
                                  toRoutePath(a.resource, a.route))) + 1

\* A removeRouteDocs that removed the last operation of a resource, the
\* other resource keeping two operations under one route path, after an
\* addRouteDocs of an operation that was registered already.
C38_Witness ==
    /\ apidocs.op = "removeRouteDocs"
    /\ apidocs.changed
    /\ apidocs.prev.op = "addRouteDocs"
    /\ ~apidocs.prev.changed
    /\ Cardinality(DOMAIN apidocs.routes) = 1
    /\ \E r \in DOMAIN apidocs.routes :
          \E p \in DOMAIN apidocs.routes[r] : Len(apidocs.routes[r][p]) = 2

=============================================================================
